---- MODULE Spec2Model ----
(***************************************************************************)
(* Model of the feed discovery engine of gofeedfinder                      *)
(* (pkg/gofeedfinder/feed_finder.go and internal.ResolveFeedURL).          *)
(*                                                                         *)
(* One behaviour is one call of a public entry point: FindFeeds,           *)
(* FindFeedsWithOptions or ScanCommonFeedPaths.  The HTTP transport is the *)
(* environment: every response is chosen nondeterministically when the     *)
(* request returns.  Text is modelled as sequences of tokens: a token is a *)
(* substring that the code's case folding and substring tests never split. *)
(***************************************************************************)
EXTENDS Integers, Sequences, FiniteSets, TLC

(***************************************************************************)
(* Bounds of the exploration.                                              *)
(***************************************************************************)
\* How many entries of commonFeedPaths (a list of ten) are probed.  The code
\* treats every entry alike; the goroutines of the first NumPaths entries are
\* explored under every interleaving.
NumPaths == 2

\* How many elements a fragment given to ExtractFeedLinks has at most, when
\* it has more than one.
MaxLinks == 3

\* The largest number of lines of a stream built from LineInputs.
MaxLines == 3

(***************************************************************************)
(* Text helpers: strings.ToLower and strings.Contains on token sequences.  *)
(***************************************************************************)
\* strings.ToLower on one token (the tokens that have upper-case letters).
LowerTok(t) ==
    CASE t = "APPLICATION/RSS+XML" -> "application/rss+xml"
      [] t = "Application/Atom+XML" -> "application/atom+xml"
      [] t = "ALTERNATE" -> "alternate"
      [] t = "Alternate" -> "alternate"
      [] t = "<HEAD>" -> "<head>"
      [] t = "<HEAD lang=\"en\">" -> "<head lang=\"en\">"
      [] t = "<Body>" -> "<body>"
      [] t = "</HEAD>" -> "</head>"
      [] t = "</Head>" -> "</head>"
      [] t = "<BODY>" -> "<body>"
      [] t = "<RSS" -> "<rss"
      [] t = "<rdf:RDF" -> "<rdf:rdf"
      [] t = "<Feed" -> "<feed"
      [] t = "/Atom.XML" -> "/atom.xml"
      [] t = "My Feed" -> "my feed"
      [] OTHER -> t

\* strings.ToLower on a text.
ToLower(s) == [i \in DOMAIN s |-> LowerTok(s[i])]

\* strings.Contains(s, needle) for a needle that lies within one token.
Contains(s, needle) ==
    \E i \in DOMAIN s :
      \E j \in 1..(Len(s[i]) - Len(needle) + 1) :
        SubSeq(s[i], j, j + Len(needle) - 1) = needle

\* strings.HasPrefix on strings.
HasPrefix(s, prefix) ==
    Len(s) >= Len(prefix) /\ SubSeq(s, 1, Len(prefix)) = prefix

\* A status the code takes for a success.
Is2xx(status) == ~(status < 200 \/ status >= 300)

(***************************************************************************)
(* Feed records (type Feed).                                               *)
(***************************************************************************)
Feed(url, title, type) == [URL |-> url, Title |-> title, Type |-> type]

\* The nil *Feed.
NoFeed == [URL |-> "", Title |-> "", Type |-> ""]

MimeTypeRSS == "application/rss+xml"
MimeTypeAtom == "application/atom+xml"
MimeTypeJSON == "application/json"
MimeTypeFeedJSON == "application/feed+json"

(***************************************************************************)
(* net/url on the URL strings the model uses.                              *)
(***************************************************************************)
GoodURL == "https://example.com"
DeepURL == "https://example.com:8080/blog/index.html?page=2#top"
BareURL == "example.com"
BadURL == "://invalid-url"
BlogURL == "https://example.com/blog/"

\* Values of the url / baseURL argument: a URL with port, path, query and
\* fragment, a string that parses to a path alone, a string url.Parse rejects.
URLInputs == {DeepURL, BareURL, BadURL}

\* url.Parse: err is TRUE when the parser rejects the string.  Dir is the path
\* up to and including its last slash, Rooted whether the path begins with one.
urlParse(s) ==
    CASE s = GoodURL ->
           [err |-> FALSE, Scheme |-> "https", Host |-> "example.com", Path |-> "",
            Dir |-> "/", Rooted |-> FALSE, RawQuery |-> "", Fragment |-> ""]
      [] s = DeepURL ->
           [err |-> FALSE, Scheme |-> "https", Host |-> "example.com:8080",
            Path |-> "/blog/index.html", Dir |-> "/blog/", Rooted |-> TRUE,
            RawQuery |-> "page=2",
            Fragment |-> "top"]
      [] s = BareURL ->
           [err |-> FALSE, Scheme |-> "", Host |-> "", Path |-> "example.com",
            Dir |-> "", Rooted |-> FALSE, RawQuery |-> "", Fragment |-> ""]
      [] s = "https://example.com/feed.xml" ->
           [err |-> FALSE, Scheme |-> "https", Host |-> "example.com", Path |-> "/feed.xml",
            Dir |-> "/", Rooted |-> TRUE, RawQuery |-> "", Fragment |-> ""]
      [] s = "/atom.xml" ->
           [err |-> FALSE, Scheme |-> "", Host |-> "", Path |-> "/atom.xml",
            Dir |-> "/", Rooted |-> TRUE, RawQuery |-> "", Fragment |-> ""]
      [] s = "feed.json" ->
           [err |-> FALSE, Scheme |-> "", Host |-> "", Path |-> "feed.json",
            Dir |-> "", Rooted |-> FALSE, RawQuery |-> "", Fragment |-> ""]
      [] s = "https://example.com/blog/../feed.xml" ->
           [err |-> FALSE, Scheme |-> "https", Host |-> "example.com",
            Path |-> "/blog/../feed.xml", Dir |-> "/blog/../", Rooted |-> TRUE,
            RawQuery |-> "", Fragment |-> ""]
      [] s = BlogURL ->
           [err |-> FALSE, Scheme |-> "https", Host |-> "example.com", Path |-> "/blog/",
            Dir |-> "/blog/", Rooted |-> TRUE, RawQuery |-> "", Fragment |-> ""]
      [] s = "/feed.xml" ->
           [err |-> FALSE, Scheme |-> "", Host |-> "", Path |-> "/feed.xml",
            Dir |-> "/", Rooted |-> TRUE, RawQuery |-> "", Fragment |-> ""]
      [] s = "feed.xml" ->
           [err |-> FALSE, Scheme |-> "", Host |-> "", Path |-> "feed.xml",
            Dir |-> "", Rooted |-> FALSE, RawQuery |-> "", Fragment |-> ""]
      [] s = "blog/feed.xml" ->
           [err |-> FALSE, Scheme |-> "", Host |-> "", Path |-> "blog/feed.xml",
            Dir |-> "blog/", Rooted |-> FALSE, RawQuery |-> "", Fragment |-> ""]
      [] s = "/Atom.XML" ->
           [err |-> FALSE, Scheme |-> "", Host |-> "", Path |-> "/Atom.XML",
            Dir |-> "/", Rooted |-> TRUE, RawQuery |-> "", Fragment |-> ""]
      [] s = "//cdn.example.com/feed" ->
           [err |-> FALSE, Scheme |-> "", Host |-> "cdn.example.com", Path |-> "/feed",
            Dir |-> "/", Rooted |-> TRUE, RawQuery |-> "", Fragment |-> ""]
      [] s = "?format=rss" ->
           [err |-> FALSE, Scheme |-> "", Host |-> "", Path |-> "",
            Dir |-> "", Rooted |-> FALSE, RawQuery |-> "format=rss", Fragment |-> ""]
      [] s = "" ->
           [err |-> FALSE, Scheme |-> "", Host |-> "", Path |-> "",
            Dir |-> "", Rooted |-> FALSE, RawQuery |-> "", Fragment |-> ""]
      [] OTHER ->
           [err |-> TRUE, Scheme |-> "", Host |-> "", Path |-> "",
            Dir |-> "", Rooted |-> FALSE, RawQuery |-> "", Fragment |-> ""]

\* strings.HasPrefix(href, "http://") || strings.HasPrefix(href, "https://")
HasHTTPPrefix(s) == HasPrefix(s, "http://") \/ HasPrefix(s, "https://")

\* Whether the HTTP client can send a request to s: it parses, with a scheme
\* and a host.
Requestable(s) ==
    LET u == urlParse(s) IN ~u.err /\ u.Scheme # "" /\ u.Host # ""

\* (*URL).String of a URL without user information and opaque part, whose
\* path needs no escaping.
urlString(u) ==
    (IF u.Scheme # "" THEN u.Scheme \o ":" ELSE "")
      \o (IF u.Scheme # "" \/ u.Host # ""
            THEN (IF u.Host # "" \/ u.Path # "" THEN "//" ELSE "") \o u.Host
            ELSE "")
      \o (IF u.Path # "" /\ ~HasPrefix(u.Path, "/") /\ u.Host # "" THEN "/" ELSE "")
      \o u.Path
      \o (IF u.RawQuery = "" THEN "" ELSE "?" \o u.RawQuery)
      \o (IF u.Fragment = "" THEN "" ELSE "#" \o u.Fragment)

\* The removal of dot segments in resolvePath of net/url.
RemoveDotSegments(path) ==
    CASE path = "/blog/../feed.xml" -> "/feed.xml"
      [] OTHER -> path

\* resolvePath(base, "") of net/url: the path, made to begin with a slash,
\* without its dot segments.
RootedPath(u) ==
    IF u.Path = "" THEN ""
    ELSE RemoveDotSegments(IF u.Rooted THEN u.Path ELSE "/" \o u.Path)

\* A resolution that joins every relative path to the root of the base.
ResolveReferenceAtRoot(base, ref) ==
    IF ref.Scheme # "" \/ ref.Host # "" THEN
        urlString([ref EXCEPT !.Scheme = IF ref.Scheme = "" THEN base.Scheme ELSE ref.Scheme,
                              !.Path = RootedPath(ref)])
    ELSE IF ref.Path = "" THEN
        urlString([base EXCEPT !.Path = RootedPath(base),
                               !.RawQuery = IF ref.RawQuery = "" THEN base.RawQuery
                                            ELSE ref.RawQuery,
                               !.Fragment = IF ref.RawQuery = "" /\ ref.Fragment = ""
                                              THEN base.Fragment
                                            ELSE ref.Fragment])
    ELSE
        urlString([ref EXCEPT !.Scheme = base.Scheme, !.Host = base.Host,
                              !.Path = RootedPath(ref)])

\* base.ResolveReference(ref).String(): dot segments are removed from the
\* paths that RemoveDotSegments lists.
ResolveReference(base, ref) ==
    IF ref.Scheme # "" \/ ref.Host # "" THEN
        urlString([ref EXCEPT !.Scheme = IF ref.Scheme = "" THEN base.Scheme ELSE ref.Scheme,
                              !.Path = RootedPath(ref)])
    ELSE IF ref.Path = "" THEN
        urlString([base EXCEPT !.Path = RootedPath(base),
                               !.RawQuery = IF ref.RawQuery = "" THEN base.RawQuery
                                            ELSE ref.RawQuery,
                               !.Fragment = IF ref.RawQuery = "" /\ ref.Fragment = ""
                                              THEN base.Fragment
                                            ELSE ref.Fragment])
    ELSE IF ref.Rooted THEN
        urlString([ref EXCEPT !.Scheme = base.Scheme, !.Host = base.Host])
    ELSE
        urlString([ref EXCEPT !.Scheme = base.Scheme, !.Host = base.Host,
                              !.Path = (IF base.Dir = "" THEN "/" ELSE base.Dir) \o ref.Path])

\* A resolver that returns the empty string when a URL does not parse.
ResolveFeedURLEmptyOnError(href, baseURL) ==
    IF HasHTTPPrefix(href) THEN href
    ELSE IF urlParse(baseURL).err THEN ""
    ELSE IF urlParse(href).err THEN ""
    ELSE ResolveReference(urlParse(baseURL), urlParse(href))

\* A resolver without the test of the prefix of href.
ResolveFeedURLAlwaysParses(href, baseURL) ==
    IF urlParse(baseURL).err THEN href
    ELSE IF urlParse(href).err THEN href
    ELSE ResolveReference(urlParse(baseURL), urlParse(href))

\* A resolver that returns every href as it is.
ResolveFeedURLVerbatim(href, baseURL) == href

ResolveFeedURL(href, baseURL) ==
    IF HasHTTPPrefix(href) THEN href
    ELSE IF urlParse(baseURL).err THEN href
    ELSE IF urlParse(href).err THEN href
    ELSE ResolveReference(urlParse(baseURL), urlParse(href))

(***************************************************************************)
(* HTML text: a document is a sequence of lines, a line a sequence of      *)
(* tokens.  A token is a tag or a run of text (tag) or a link element with *)
(* its attributes.                                                         *)
(***************************************************************************)
Tag(t) == [tag |-> t, rel |-> "", type |-> "", href |-> "", title |-> ""]
Link(rel, type, href, title) ==
    [tag |-> "<link>", rel |-> rel, type |-> type, href |-> href, title |-> title]

\* The text of a line as the head extractor sees it.
LineText(line) == [i \in DOMAIN line |-> line[i].tag]

\* const MaxHeadSize = 1024 * 1024
MaxHeadSize == 1024 * 1024

\* bufio.MaxScanTokenSize: the largest buffer of the Scanner that
\* bufio.NewScanner returns.
MaxScanTokenSize == 64 * 1024

\* Runs of text without markup and without a line feed, named by their length.
BlockSize(tag) ==
    CASE tag = "[text of 65525 bytes]" -> 65525
      [] tag = "[text of 65535 bytes]" -> 65535
      [] tag = "[text of 65536 bytes]" -> 65536
      [] OTHER -> 0

\* The bytes of a token.
TokText(t) ==
    IF t.tag = "<link>"
      THEN "<link rel=\"" \o t.rel \o "\" type=\"" \o t.type \o "\" href=\"" \o t.href
             \o "\" title=\"" \o t.title \o "\">"
      ELSE t.tag

\* The number of bytes of a token and of a line without its line feed.
TokSize(t) == IF BlockSize(t.tag) > 0 THEN BlockSize(t.tag) ELSE Len(TokText(t))

RECURSIVE LineSize(_)
LineSize(line) == IF line = <<>> THEN 0 ELSE TokSize(Head(line)) + LineSize(Tail(line))

\* The number of bytes of a stream, each line with its line feed.
RECURSIVE StreamSize(_)
StreamSize(lines) ==
    IF lines = <<>> THEN 0 ELSE LineSize(Head(lines)) + 1 + StreamSize(Tail(lines))

\* The first k bytes of a line: the tokens that fit and what is left of the
\* token that does not, which is text (an unfinished tag is no element).
RECURSIVE CutLine(_, _)
CutLine(line, k) ==
    IF line = <<>> \/ k <= 0 THEN <<>>
    ELSE
      LET t == Head(line)
      IN  IF TokSize(t) <= k THEN <<t>> \o CutLine(Tail(line), k - TokSize(t))
          ELSE IF BlockSize(t.tag) > 0 THEN <<t>>
          ELSE <<Tag(SubSeq(TokText(t), 1, k))>>

\* io.LimitReader(reader, n): a reader that gives the first n bytes of reader.
LimitReader(r, n) == [lines |-> r.lines, fails |-> r.fails, N |-> n]

\* The number of bytes a reader is ready to give: those left of its limit,
\* and more than the stream has when it has no limit.
Available(r) == IF "N" \in DOMAIN r THEN r.N ELSE StreamSize(r.lines) + 1

Min(a, b) == IF a <= b THEN a ELSE b

\* extractHeadSection's loop from line i on, on a reader that gives limit
\* bytes.  The scanner gives the lines one by one, the last one cut where the
\* reader's bytes end, and stops with ErrTooLong (tooLong) at a line that does
\* not fit its buffer.  The result: head is the buffer at the end of the loop
\* (one entry per line written, each standing for the line and its "\n");
\* ended tells that the scanner asked the reader for bytes beyond the last
\* line; read is the number of bytes of the lines the scanner has given or
\* given up on; steps is the number of turns of the loop.
RECURSIVE scanLines(_, _, _, _, _, _)

\* The end of the loop.
LoopEnds(headBuffer, ended, tooLong, read, steps) ==
    [head |-> headBuffer, ended |-> ended, tooLong |-> tooLong, read |-> read,
     steps |-> steps]

\* A turn that goes on after the line with </head>.
lineWrittenPastHead(lines, i, lineLower, inHead, headStartFound, headBuffer, limit, read) ==
    IF inHead /\ Contains(lineLower, "<body") /\ ~Contains(lineLower, "</head>")
      THEN LoopEnds(<<>>, FALSE, FALSE, read, i)
    ELSE scanLines(lines, i + 1, inHead, headStartFound, headBuffer, limit)

\* A turn that keeps what it has accumulated when it meets <body.
lineWrittenKeepsOnBody(lines, i, lineLower, inHead, headStartFound, headBuffer, limit, read) ==
    IF inHead /\ Contains(lineLower, "</head>")
      THEN LoopEnds(headBuffer, FALSE, FALSE, read, i)
    ELSE IF inHead /\ Contains(lineLower, "<body") /\ ~Contains(lineLower, "</head>")
      THEN LoopEnds(headBuffer, FALSE, FALSE, read, i)
    ELSE scanLines(lines, i + 1, inHead, headStartFound, headBuffer, limit)

\* The rest of a turn, after the line was written to the buffer: the tests
\* for </head> and for <body without </head>, and the next turn.
lineWritten(lines, i, lineLower, inHead, headStartFound, headBuffer, limit, read) ==
    IF inHead /\ Contains(lineLower, "</head>")
      THEN LoopEnds(headBuffer, FALSE, FALSE, read, i)
    ELSE IF inHead /\ Contains(lineLower, "<body") /\ ~Contains(lineLower, "</head>")
      THEN LoopEnds(<<>>, FALSE, FALSE, read, i)
    ELSE scanLines(lines, i + 1, inHead, headStartFound, headBuffer, limit)

\* A turn after the test for <head: the test for <body before the head, and
\* the write of the line to the buffer.
lineTested(lines, i, line, lineLower, inHead, headStartFound, headBuffer, limit, read) ==
    IF ~headStartFound /\ Contains(lineLower, "<body")
      THEN LoopEnds(headBuffer, FALSE, FALSE, read, i)
    ELSE lineWritten(lines, i, lineLower, inHead, headStartFound,
                     IF inHead THEN Append(headBuffer, line) ELSE headBuffer, limit, read)

\* A turn on the line the scanner gave: lineLower, and the test for <head.
lineGiven(lines, i, line, inHead, headStartFound, headBuffer, limit, read) ==
    lineTested(lines, i, line, ToLower(LineText(line)),
               inHead \/ (~headStartFound /\ Contains(ToLower(LineText(line)), "<head")),
               headStartFound \/ Contains(ToLower(LineText(line)), "<head"),
               headBuffer, limit, read)

\* scanner.Scan() when read bytes of the reader are taken: the end of the
\* lines or of the reader's bytes, a line that does not fit the buffer, or
\* the next line, cut where the reader's bytes end.
scanToken(lines, i, inHead, headStartFound, headBuffer, limit, read) ==
    IF i > Len(lines) \/ read >= limit
      THEN LoopEnds(headBuffer, read < limit, FALSE, read, i - 1)
    ELSE IF Min(LineSize(lines[i]), limit - read) >= MaxScanTokenSize
      THEN LoopEnds(headBuffer, FALSE, TRUE, read + MaxScanTokenSize, i - 1)
    ELSE lineGiven(lines, i, CutLine(lines[i], limit - read), inHead, headStartFound,
                   headBuffer, limit, Min(read + LineSize(lines[i]) + 1, limit))

\* The number of bytes of the lines before line i, each with its line feed.
Offset(lines, i) == StreamSize(SubSeq(lines, 1, i - 1))

scanLines(lines, i, inHead, headStartFound, headBuffer, limit) ==
    scanToken(lines, i, inHead, headStartFound, headBuffer, limit,
              Min(Offset(lines, i), limit))

\* extractHeadSection on a reader [lines, fails], limited or not: fails tells
\* that the underlying reader reports an error once its lines are consumed.
\* read: the bytes of the lines the scanner has given or given up on.
extractHeadSection(reader) ==
    LET r == scanLines(reader.lines, 1, FALSE, FALSE, <<>>, Available(reader))
    IN  IF r.tooLong \/ (r.ended /\ reader.fails)
          THEN [head |-> <<>>, err |-> TRUE, read |-> r.read, steps |-> r.steps]
        ELSE [head |-> r.head, err |-> FALSE, read |-> r.read, steps |-> r.steps]

\* The link elements of a fragment, in document order (doc.Find("link")).
RECURSIVE Flatten(_)
Flatten(lines) ==
    IF lines = <<>> THEN <<>> ELSE Head(lines) \o Flatten(Tail(lines))

LinkElements(html) == SelectSeq(Flatten(html), LAMBDA t : t.tag = "<link>")

\* A switch whose case for MimeTypeAtom sets "rss".
LinkFeedTypeAtomAsRSS(linkType) ==
    CASE linkType \in {MimeTypeRSS, MimeTypeAtom} -> "rss"
      [] linkType \in {MimeTypeJSON, MimeTypeFeedJSON} -> "json"
      [] OTHER -> ""

\* The switch on linkType of ExtractFeedLinks.
LinkFeedType(linkType) ==
    CASE linkType = MimeTypeRSS -> "rss"
      [] linkType = MimeTypeAtom -> "atom"
      [] linkType \in {MimeTypeJSON, MimeTypeFeedJSON} -> "json"
      [] OTHER -> ""

\* The callback without the test of href.
RECURSIVE EachLinkEmptyHref(_, _)
EachLinkEmptyHref(links, url) ==
    IF links = <<>> THEN <<>>
    ELSE
      LET s == Head(links)
          rel == LowerTok(s.rel)
          linkType == LowerTok(s.type)
          feedType == LinkFeedType(linkType)
          rest == EachLinkEmptyHref(Tail(links), url)
      IN  IF rel = "alternate" /\ feedType # ""
            THEN <<Feed(ResolveFeedURL(s.href, url), s.title, feedType)>> \o rest
            ELSE rest

\* The callback comparing rel and type as they are written.
RECURSIVE EachLinkCaseSensitive(_, _)
EachLinkCaseSensitive(links, url) ==
    IF links = <<>> THEN <<>>
    ELSE
      LET s == Head(links)
          feedType == LinkFeedType(s.type)
          rest == EachLinkCaseSensitive(Tail(links), url)
      IN  IF s.rel = "alternate" /\ s.href # "" /\ feedType # ""
            THEN <<Feed(ResolveFeedURL(s.href, url), s.title, feedType)>> \o rest
            ELSE rest

\* The callback putting each Feed in front of the slice.
RECURSIVE EachLinkReversed(_, _)
EachLinkReversed(links, url) ==
    IF links = <<>> THEN <<>>
    ELSE
      LET s == Head(links)
          rel == LowerTok(s.rel)
          linkType == LowerTok(s.type)
          feedType == LinkFeedType(linkType)
          rest == EachLinkReversed(Tail(links), url)
      IN  IF rel = "alternate" /\ s.href # "" /\ feedType # ""
            THEN rest \o <<Feed(ResolveFeedURL(s.href, url), s.title, feedType)>>
            ELSE rest

\* The callback without the test of feedType.
RECURSIVE EachLinkAnyType(_, _)
EachLinkAnyType(links, url) ==
    IF links = <<>> THEN <<>>
    ELSE
      LET s == Head(links)
          rel == LowerTok(s.rel)
          linkType == LowerTok(s.type)
          feedType == LinkFeedType(linkType)
          rest == EachLinkAnyType(Tail(links), url)
      IN  IF rel = "alternate" /\ s.href # ""
            THEN <<Feed(ResolveFeedURL(s.href, url), s.title, feedType)>> \o rest
            ELSE rest

RECURSIVE EachLink(_, _)
EachLink(links, url) ==
    IF links = <<>> THEN <<>>
    ELSE
      LET s == Head(links)
          rel == LowerTok(s.rel)
          linkType == LowerTok(s.type)
          feedType == LinkFeedType(linkType)
          rest == EachLink(Tail(links), url)
      IN  IF rel = "alternate" /\ s.href # "" /\ feedType # ""
            THEN <<Feed(ResolveFeedURL(s.href, url), s.title, feedType)>> \o rest
            ELSE rest

ExtractFeedLinks(html, url) == EachLink(LinkElements(html), url)

\* An extraction that gives the reader as it is to extractHeadSection.
ExtractFeedLinksFromStreamUnlimited(reader, baseURL) ==
    LET h == extractHeadSection(reader)
        all == StreamSize(reader.lines)
        feeds == IF h.err \/ Len(h.head) = 0 THEN <<>> ELSE ExtractFeedLinks(h.head, baseURL)
    IN  [feeds |-> feeds, err |-> h.err, lo |-> h.read, hi |-> all, steps |-> h.steps]

\* lo and hi: the fewest and the most bytes the scanner can have taken from
\* reader, which it reads ahead of the lines it gives; steps: the turns of
\* the loop of extractHeadSection.
ExtractFeedLinksFromStream(reader, baseURL) ==
    LET limitedReader == LimitReader(reader, MaxHeadSize)
        h == extractHeadSection(limitedReader)
        all == IF StreamSize(reader.lines) <= MaxHeadSize THEN StreamSize(reader.lines)
               ELSE MaxHeadSize
    IN  IF h.err THEN [feeds |-> <<>>, err |-> TRUE, lo |-> h.read, hi |-> all,
                       steps |-> h.steps]
        ELSE IF Len(h.head) = 0
          THEN [feeds |-> <<>>, err |-> FALSE, lo |-> h.read, hi |-> all, steps |-> h.steps]
        ELSE [feeds |-> ExtractFeedLinks(h.head, baseURL), err |-> FALSE,
              lo |-> h.read, hi |-> all, steps |-> h.steps]

(***************************************************************************)
(* The two validation stages of a probe.                                   *)
(***************************************************************************)
\* A checkFeedURL that tests the Atom type before the RSS types.
HeadFeedTypeAtomFirst(header) ==
    LET contentType == ToLower(header)
    IN  IF Contains(contentType, "application/atom+xml") THEN "atom"
        ELSE IF Contains(contentType, "application/rss+xml")
                \/ Contains(contentType, "text/xml") THEN "rss"
        ELSE IF Contains(contentType, "application/json")
                \/ Contains(contentType, "application/feed+json") THEN "json"
        ELSE ""

\* checkFeedURL's decision on the HEAD response's Content-Type: the feed
\* type, or "" when a GET must decide.
HeadFeedType(header) ==
    LET contentType == ToLower(header)
    IN  IF Contains(contentType, "application/rss+xml") \/ Contains(contentType, "text/xml")
          THEN "rss"
        ELSE IF Contains(contentType, "application/atom+xml") THEN "atom"
        ELSE IF Contains(contentType, "application/json")
                \/ Contains(contentType, "application/feed+json") THEN "json"
        ELSE ""

\* buffer := make([]byte, 1024)
SniffSize == 1024

\* Runs of body bytes that hold no marker, named by their length.
PadSize(t) ==
    CASE t = "[text of 1020 bytes]" -> 1020
      [] t = "[text of 1021 bytes]" -> 1021
      [] t = "[text of 1024 bytes]" -> 1024
      [] OTHER -> 0

\* The number of bytes of a token of a body.
ByteLen(t) == IF PadSize(t) > 0 THEN PadSize(t) ELSE Len(t)

\* buffer[:n]: the first n bytes of a text.
RECURSIVE FirstBytes(_, _)
FirstBytes(text, n) ==
    IF text = <<>> \/ n <= 0 THEN <<>>
    ELSE IF ByteLen(Head(text)) <= n
      THEN <<Head(text)>> \o FirstBytes(Tail(text), n - ByteLen(Head(text)))
    ELSE IF PadSize(Head(text)) > 0 THEN <<Head(text)>>
    ELSE <<SubSeq(Head(text), 1, n)>>

\* n, err := resp.Body.Read(buffer): one Read, which returns the bytes of
\* the piece that is there, as many as the buffer holds (none and io.EOF
\* for an empty body).
Read(body, size) == IF body = <<>> THEN <<>> ELSE FirstBytes(Head(body), size)

\* A validateFeedContent that takes <feed alone for an Atom feed.
ContentFeedTypeFeedAlone(buffer) ==
    LET content == ToLower(buffer)
    IN  IF Contains(content, "<rss") \/ Contains(content, "<rdf:rdf") THEN "rss"
        ELSE IF Contains(content, "<feed") THEN "atom"
        ELSE IF Contains(content, "\"version\"")
                /\ (Contains(content, "\"title\"") \/ Contains(content, "\"items\""))
          THEN "json"
        ELSE ""

\* validateFeedContent's decision on the bytes read from the GET body.
ContentFeedType(buffer) ==
    LET content == ToLower(buffer)
    IN  IF Contains(content, "<rss") \/ Contains(content, "<rdf:rdf") THEN "rss"
        ELSE IF Contains(content, "<feed") /\ Contains(content, "xmlns") THEN "atom"
        ELSE IF Contains(content, "\"version\"")
                /\ (Contains(content, "\"title\"") \/ Contains(content, "\"items\""))
          THEN "json"
        ELSE ""

(***************************************************************************)
(* Inputs of a call and responses of the transport.                        *)
(***************************************************************************)
\* var commonFeedPaths, in the order of the source.
AllCommonFeedPaths ==
    <<"/feed", "/rss", "/atom.xml", "/index.xml", "/rss.xml", "/feed.xml",
      "/feeds/all.atom.xml", "/feeds/posts/default", "/api/rss", "/feed.rss">>

\* The entries that are probed.
commonFeedPaths == SubSeq(AllCommonFeedPaths, 1, NumPaths)

Paths == DOMAIN commonFeedPaths

\* The value maxConcurrency takes when the caller's is not positive.
DefaultMaxConcurrency == 3

\* Values of the baseURL argument of ResolveFeedURL and of the url argument
\* of ExtractFeedLinks and ExtractFeedLinksFromStream.
BaseInputs == {GoodURL, DeepURL, BlogURL, BareURL, BadURL}

\* Values of the href argument of ResolveFeedURL.
HrefInputs ==
    {"", "https://example.com/feed.xml", "http://example.com/feed.xml",
     "https://example.com/blog/../feed.xml", "http://[invalid", "/Atom.XML", "feed.json",
     "/feed.xml", "feed.xml", "blog/feed.xml",
     "//cdn.example.com/feed", "?format=rss", BadURL}

\* Values of the attributes of a link element.
RelInputs ==
    {"alternate", "ALTERNATE", "Alternate", "stylesheet", "canonical",
     "alternate nofollow", ""}
TypeInputs ==
    {MimeTypeRSS, MimeTypeAtom, MimeTypeJSON, MimeTypeFeedJSON, "APPLICATION/RSS+XML",
     "Application/Atom+XML", "text/xml", "application/rss+xml; charset=utf-8",
     "text/html", ""}
LinkHrefInputs == {"", "https://example.com/feed.xml", "/Atom.XML", "feed.json", BadURL}
TitleInputs == {"", "My Feed"}

\* Fragments with one link element.
SingleLinkFragments ==
    {<< <<Link(r, t, h, ti)>> >> :
       r \in RelInputs, t \in TypeInputs, h \in LinkHrefInputs, ti \in TitleInputs}

\* Fragments with up to MaxLinks elements, each one of four: two feed links,
\* a link that is no feed link, an element that is no link.
ListElements ==
    {Link("alternate", MimeTypeRSS, "https://example.com/feed.xml", "RSS"),
     Link("ALTERNATE", MimeTypeAtom, "/Atom.XML", "Atom"),
     Link("stylesheet", "text/css", "/style.css", ""),
     Tag("<title>Home</title>")}
ListFragments ==
    {<<l>> : l \in UNION {[1..n -> ListElements] : n \in 0..MaxLinks}}

\* Values of the html argument of ExtractFeedLinks.
Fragments == SingleLinkFragments \cup ListFragments

\* Values of Options.MaxConcurrency / the maxConcurrency argument.
MaxConcurrencyInputs == {-1, 0, 1, 2}

\* Options{}: what FindFeeds passes.
DefaultOptions == [ScanCommonPaths |-> FALSE, MaxConcurrency |-> 0]

Entries == {"FindFeeds", "FindFeedsWithOptions", "ScanCommonFeedPaths"}

\* The functions that send no request.
PureEntries ==
    {"ResolveFeedURL", "ExtractFeedLinks", "ExtractFeedLinksFromStream", "extractHeadSection"}

\* checkFeedURL, called as a goroutine of ScanCommonFeedPaths calls it.
ProbeEntries == {"checkFeedURL"}

\* The base URLs its url argument is built from: they parse.
ProbeBases == {GoodURL, DeepURL, BareURL}

\* Status codes of probe responses and of page responses.
Statuses == {199, 200, 299, 300, 404}
PageStatuses == {100, 199, 200, 299, 300, 301, 403, 404, 500}

\* Response bodies of the page fetch.
PageOneFeed ==
    [lines |-> << <<Tag("<html>"), Tag("<head>")>>,
                  <<Link("alternate", MimeTypeRSS, "https://example.com/feed.xml",
                         "Example RSS Feed")>>,
                  <<Tag("</head>"), Tag("<body>"), Tag("</body>"), Tag("</html>")>> >>,
     fails |-> FALSE]
PageTwoFeeds ==
    [lines |-> << <<Tag("<html>")>>,
                  <<Tag("<HEAD>"),
                    Link("ALTERNATE", "Application/Atom+XML", "/atom.xml", "Atom Feed"),
                    Link("stylesheet", "text/css", "/style.css", "")>>,
                  <<Link("alternate", MimeTypeFeedJSON, "feed.json", "")>>,
                  <<Tag("</HEAD>")>>,
                  <<Tag("<body>"),
                    Link("alternate", MimeTypeRSS, "https://example.com/feed.xml", "Body")>> >>,
     fails |-> FALSE]
PageNoFeeds ==
    [lines |-> << <<Tag("<html>"), Tag("<head>"), Tag("<title>No feeds here</title>"),
                    Tag("</head>"), Tag("<body>"), Tag("</body>"), Tag("</html>")>> >>,
     fails |-> FALSE]
PageOtherLinks ==
    [lines |-> << <<Tag("<html>"), Tag("<head>"),
                    Link("stylesheet", MimeTypeRSS, "/style.css", ""),
                    Link("alternate", "text/xml", "/feed.xml", "XML")>>,
                  <<Link("alternate", MimeTypeAtom, "", "No href"), Tag("</head>")>>,
                  <<Tag("<body>")>>,
                  <<Link("alternate", MimeTypeRSS, "https://example.com/feed.xml", "Body")>> >>,
     fails |-> FALSE]
\* A head whose only feed link has an href that url.Parse rejects.
PageBadHref ==
    [lines |-> << <<Tag("<html>"), Tag("<head>"),
                    Link("alternate", MimeTypeRSS, BadURL, "Bad href"), Tag("</head>")>> >>,
     fails |-> FALSE]
\* A body whose read fails before the end of its head.
PageBroken ==
    [lines |-> << <<Tag("<html>"), Tag("<head>")>>,
                  <<Link("alternate", MimeTypeRSS, "https://example.com/feed.xml",
                         "Example RSS Feed")>> >>,
     fails |-> TRUE]
PageEmpty == [lines |-> <<>>, fails |-> FALSE]

Pages == {PageOneFeed, PageTwoFeeds, PageNoFeeds, PageOtherLinks, PageBadHref, PageBroken}

\* A feed link of a head and a feed link of a body.
HeadLink == Link("alternate", MimeTypeAtom, "/atom.xml", "Atom Feed")
BodyLink == Link("alternate", MimeTypeRSS, "https://example.com/feed.xml", "Body")

\* Lines of a document: markup before the head, an opening tag with an
\* attribute, a feed link, closing tags alone and followed by the body on the
\* same line, a body tag, a line too long for the scanner's buffer, and a
\* head written after <body on the same line.
LineInputs ==
    { <<Tag("<html>")>>,
      <<Tag("<HEAD lang=\"en\">")>>,
      <<HeadLink>>,
      <<Tag("</head>")>>,
      <<Tag("</HEAD>"), Tag("<body>"), BodyLink>>,
      <<Tag("<Body>"), BodyLink>>,
      <<Tag("[text of 65536 bytes]")>>,
      <<Tag("<body>"), Tag("<head>"), HeadLink, Tag("</head>")>> }

\* The documents of at most MaxLines of these lines, read with and without a
\* failure of the reader at their end.
LineStreams ==
    { [lines |-> l, fails |-> f] :
        l \in UNION { [1..n -> LineInputs] : n \in 0..MaxLines }, f \in BOOLEAN }

\* k lines of MaxScanTokenSize bytes each, the line feed included.
Filler(k) == [i \in 1..k |-> <<Tag("[text of 65535 bytes]")>>]

\* The number of such lines in MaxHeadSize bytes.
FillerLines == MaxHeadSize \div MaxScanTokenSize

\* Documents longer than MaxHeadSize: a head that starts beyond MaxHeadSize,
\* a head that starts before it and has its feed link and its end beyond it,
\* a head whose closing tag lies across it, and the first lines of a stream
\* without end and without markup.
LongLines ==
    { Filler(FillerLines) \o << <<Tag("<head>")>>, <<HeadLink>>, <<Tag("</head>")>> >>,
      << <<Tag("<head>")>> >> \o Filler(FillerLines)
          \o << <<HeadLink>>, <<Tag("</head>")>> >>,
      << <<Tag("<head>")>>, <<HeadLink>> >> \o Filler(FillerLines - 2)
          \o << <<Tag("[text of 65525 bytes]"), Tag("</head>"), Tag("<body>"), BodyLink>> >>,
      Filler(FillerLines + 1) }

LongStreams == { [lines |-> l, fails |-> f] : l \in LongLines, f \in BOOLEAN }

\* Values of the reader argument of extractHeadSection.
HeadStreams == LineStreams \cup LongStreams

\* Values of the reader argument of ExtractFeedLinksFromStream.
Streams == Pages \cup {PageEmpty} \cup HeadStreams

\* What http.Get of the page can return: a transport error (the only outcome
\* for a URL the client cannot request), or a status and a body.  The body
\* of a response without a 2xx status is a page with a feed link.
PageResponses(u) ==
    {[err |-> TRUE, StatusCode |-> 0, Body |-> PageEmpty]}
      \cup (IF Requestable(u)
              THEN [err : {FALSE}, StatusCode : {st \in PageStatuses : ~Is2xx(st)},
                    Body : {PageOneFeed}]
                   \cup [err : {FALSE}, StatusCode : {st \in PageStatuses : Is2xx(st)},
                         Body : Pages]
              ELSE {})

\* Content-Type values of a HEAD response (<<>>: no such header).
ContentTypes ==
    { <<>>, <<"text/html">>, <<"application/rss+xml">>, <<"APPLICATION/RSS+XML">>,
      <<"text/xml", "; charset=utf-8">>, <<"application/atom+xml">>,
      <<"application/json">>, <<"application/feed+json">>,
      <<"text/xml", ", ", "application/atom+xml">> }

\* Bodies of a GET response: the pieces the transport delivers, in order,
\* each one what a Read of the body with a large enough buffer returns.
Bodies ==
    { <<>>, << <<"<html>", "<body>">> >>, << <<"<?xml", "<rss">> >>, << <<"<rdf:RDF">> >>,
      << <<"<Feed", "xmlns">> >>, << <<"<feed">> >>, << <<"<feed", "xmlns", "<rss">> >>,
      << <<"{", "\"version\"", "\"title\"">> >>,
      << <<"{", "\"version\"", "\"items\"">> >>, << <<"{", "\"version\"">> >>,
      << <<"<?xml">>, <<"<rss">> >>,
      << <<"[text of 1020 bytes]", "<rss">> >>,
      << <<"[text of 1021 bytes]", "<rss">> >>,
      << <<"[text of 1024 bytes]", "<rss">> >> }

\* Whether the client can send a request to scheme://host/...
CanRequest(scheme, host) == scheme \in {"http", "https"} /\ host # ""

\* What http.Head of a probe can return: a transport error (the only outcome
\* for a URL the client cannot request), or a status and a Content-Type.  The
\* code reads the header of a 2xx response only.
HeadResponses(u) ==
    {[err |-> TRUE, StatusCode |-> 0, ContentType |-> <<>>]}
      \cup (IF CanRequest(u.Scheme, u.Host)
              THEN [err : {FALSE}, StatusCode : {st \in Statuses : ~Is2xx(st)},
                    ContentType : {<<>>}]
                   \cup [err : {FALSE}, StatusCode : {st \in Statuses : Is2xx(st)},
                         ContentType : ContentTypes]
              ELSE {})

\* What http.Get of a probe and the Read of its body can return.  The code
\* reads the body of a 2xx response only; readErr: Read fails.
GetResponses ==
    {[err |-> TRUE, StatusCode |-> 0, Body |-> <<>>, readErr |-> FALSE]}
      \cup [err : {FALSE}, StatusCode : {st \in Statuses : ~Is2xx(st)},
            Body : {<<>>}, readErr : {FALSE}]
      \cup [err : {FALSE}, StatusCode : {st \in Statuses : Is2xx(st)},
            Body : Bodies, readErr : {FALSE}]
      \cup [err : {FALSE}, StatusCode : {st \in Statuses : Is2xx(st)},
            Body : {<<>>}, readErr : {TRUE}]

(***************************************************************************)
(* State.                                                                  *)
(***************************************************************************)
VARIABLES
    entry,          \* the function called
    url,            \* its url / baseURL argument
    opts,           \* its Options (maxConcurrency for ScanCommonFeedPaths)
    fpc,            \* FindFeedsWithOptions: "none", "get", "scan", "returned"
    ret,            \* what FindFeedsWithOptions returned
    page,           \* the response http.Get gave for the page
    pageReqs,       \* number of GET requests sent for the page
    spc,            \* ScanCommonFeedPaths: "idle", "start", "launch", "closer",
                    \* "collect", "returned", "panic"
    maxConcurrency, \* its local maxConcurrency (capacity of semaphore)
    parsedURL,      \* its parsedURL
    launched,       \* number of goroutines started by the loop over the paths
    semaphore,      \* number of elements buffered in the semaphore channel
    results,        \* elements buffered in the results channel
    closed,         \* how many times close(results) ran
    wg,             \* counter of the WaitGroup
    feeds,          \* the slice collected from results
    scanRet,        \* what ScanCommonFeedPaths returned
    gpc,            \* per path, where its goroutine is
    feed,           \* per path, the *Feed checkFeedURL returned (NoFeed: nil)
    headReqs,       \* per path, number of HEAD requests sent
    cpc,            \* the closing goroutine: "unborn", "wait", "close", "exit"
    panicked,       \* a goroutine panicked
    href,           \* the href argument of ResolveFeedURL
    html,           \* the html argument of ExtractFeedLinks
    reader,         \* the reader argument of ExtractFeedLinksFromStream
    ppc,            \* the call of one of these: "none", "call", "returned"
    out,            \* what it returned
    checkPath,      \* checkFeedURL: the common path its url argument ends with
    checkPc,        \* checkFeedURL: "none", "call", "head", "get", "returned"
    requests,       \* the requests it sent, in order
    headResp,       \* the response http.Head gave it
    getResp,        \* the response http.Get gave validateFeedContent
    checkRet        \* the *Feed it returned (NoFeed: nil)

vars == <<entry, url, opts, fpc, ret, page, pageReqs, spc, maxConcurrency, parsedURL,
          launched, semaphore, results, closed, wg, feeds, scanRet, gpc, feed,
          headReqs, cpc, panicked, href, html, reader, ppc, out, checkPath, checkPc,
          requests, headResp, getResp, checkRet>>

inputVars == <<entry, url, opts>>
findVars == <<fpc, ret, page, pageReqs>>
scanVars == <<spc, maxConcurrency, parsedURL, launched, feeds, scanRet>>
chanVars == <<semaphore, results, closed, wg>>
probeVars == <<gpc, feed, headReqs>>
checkVars == <<checkPath, checkPc, requests, headResp, getResp, checkRet>>
pureVars == <<href, html, reader, ppc, out>>

NoPage == [err |-> TRUE, StatusCode |-> -1, Body |-> PageEmpty]
NoReturn == [feeds |-> <<>>, err |-> "pending", status |-> 0]
Return(f, e, st) == [feeds |-> f, err |-> e, status |-> st]
\* No response yet.
NoResp == [err |-> TRUE, StatusCode |-> -1, ContentType |-> <<>>]
NoGetResp == [err |-> TRUE, StatusCode |-> -1, Body |-> <<>>, readErr |-> FALSE]

NoOut ==
    [feeds |-> <<>>, url |-> "", err |-> FALSE, head |-> <<>>, lo |-> 0, hi |-> 0, steps |-> 0]

Init ==
    /\ entry \in Entries \cup PureEntries \cup ProbeEntries
    /\ url \in IF entry \in Entries THEN URLInputs
               ELSE IF entry \in ProbeEntries THEN ProbeBases
               ELSE BaseInputs
    /\ entry = "extractHeadSection" => url = GoodURL
    /\ opts \in [ScanCommonPaths : BOOLEAN, MaxConcurrency : MaxConcurrencyInputs]
    /\ entry \in PureEntries \cup ProbeEntries \cup {"FindFeeds"} => opts = DefaultOptions
    /\ entry = "ScanCommonFeedPaths" => opts.ScanCommonPaths
    /\ fpc = IF entry \in {"FindFeeds", "FindFeedsWithOptions"} THEN "get" ELSE "none"
    /\ href \in IF entry = "ResolveFeedURL" THEN HrefInputs ELSE {""}
    /\ html \in IF entry = "ExtractFeedLinks" THEN Fragments ELSE {<<>>}
    /\ reader \in IF entry = "ExtractFeedLinksFromStream" THEN Streams
                  ELSE IF entry = "extractHeadSection" THEN HeadStreams
                  ELSE {PageEmpty}
    /\ reader \notin Pages \cup {PageEmpty} => url = GoodURL
    /\ ppc = IF entry \in PureEntries THEN "call" ELSE "none"
    /\ out = NoOut
    /\ checkPath \in IF entry \in ProbeEntries 
                        THEN {AllCommonFeedPaths[i] : i \in DOMAIN AllCommonFeedPaths}
                      ELSE {""}
    /\ checkPc = IF entry \in ProbeEntries THEN "call" ELSE "none"
    /\ requests = <<>>
    /\ headResp = NoResp
    /\ getResp = NoGetResp
    /\ checkRet = NoFeed
    /\ spc = IF entry = "ScanCommonFeedPaths" THEN "start" ELSE "idle"
    /\ ret = NoReturn
    /\ page = NoPage
    /\ scanRet = NoReturn
    /\ pageReqs = 0
    /\ maxConcurrency = 0
    /\ parsedURL = urlParse(BadURL)
    /\ launched = 0
    /\ semaphore = 0
    /\ results = <<>>
    /\ closed = 0
    /\ wg = 0
    /\ feeds = <<>>
    /\ gpc = [p \in Paths |-> "unborn"]
    /\ feed = [p \in Paths |-> NoFeed]
    /\ headReqs = [p \in Paths |-> 0]
    /\ cpc = "unborn"
    /\ panicked = FALSE

(***************************************************************************)
(* FindFeeds / FindFeedsWithOptions.                                       *)
(***************************************************************************)
\* FindFeedsWithOptions with the test on len(feeds) after the fallback: the
\* fallback runs whenever it is enabled.
AfterFetchFallbackFirst(resp, u, o) ==
    IF resp.err THEN [scan |-> FALSE, ret |-> Return(<<>>, "request failed", 0)]
    ELSE IF resp.StatusCode < 200 \/ resp.StatusCode >= 300
      THEN [scan |-> FALSE, ret |-> Return(<<>>, "HTTP request failed with status",
                                           resp.StatusCode)]
    ELSE
      LET r == ExtractFeedLinksFromStream(resp.Body, u)
      IN  IF r.err
            THEN [scan |-> FALSE, ret |-> Return(<<>>, "failed to extract head section", 0)]
          ELSE IF o.ScanCommonPaths THEN [scan |-> TRUE, ret |-> NoReturn]
          ELSE IF Len(r.feeds) > 0 THEN [scan |-> FALSE, ret |-> Return(r.feeds, "", 0)]
          ELSE [scan |-> FALSE, ret |-> Return(<<>>, "no feeds found", 0)]

\* FindFeedsWithOptions without the test of opts.ScanCommonPaths.
AfterFetchAlwaysFallback(resp, u, o) ==
    IF resp.err THEN [scan |-> FALSE, ret |-> Return(<<>>, "request failed", 0)]
    ELSE IF resp.StatusCode < 200 \/ resp.StatusCode >= 300
      THEN [scan |-> FALSE, ret |-> Return(<<>>, "HTTP request failed with status",
                                           resp.StatusCode)]
    ELSE
      LET r == ExtractFeedLinksFromStream(resp.Body, u)
      IN  IF r.err
            THEN [scan |-> FALSE, ret |-> Return(<<>>, "failed to extract head section", 0)]
          ELSE IF Len(r.feeds) > 0 THEN [scan |-> FALSE, ret |-> Return(r.feeds, "", 0)]
          ELSE [scan |-> TRUE, ret |-> NoReturn]

\* FindFeedsWithOptions without the test of resp.StatusCode.
AfterFetchStatusUnchecked(resp, u, o) ==
    IF resp.err THEN [scan |-> FALSE, ret |-> Return(<<>>, "request failed", 0)]
    ELSE
      LET r == ExtractFeedLinksFromStream(resp.Body, u)
      IN  IF r.err
            THEN [scan |-> FALSE, ret |-> Return(<<>>, "failed to extract head section", 0)]
          ELSE IF Len(r.feeds) > 0 THEN [scan |-> FALSE, ret |-> Return(r.feeds, "", 0)]
          ELSE IF o.ScanCommonPaths THEN [scan |-> TRUE, ret |-> NoReturn]
          ELSE [scan |-> FALSE, ret |-> Return(<<>>, "no feeds found", 0)]

\* FindFeedsWithOptions taking a failed read of the body for a page without
\* feed links.
AfterFetchReadErrorIgnored(resp, u, o) ==
    IF resp.err THEN [scan |-> FALSE, ret |-> Return(<<>>, "request failed", 0)]
    ELSE IF resp.StatusCode < 200 \/ resp.StatusCode >= 300
      THEN [scan |-> FALSE, ret |-> Return(<<>>, "HTTP request failed with status",
                                           resp.StatusCode)]
    ELSE
      LET r == ExtractFeedLinksFromStream(resp.Body, u)
      IN  IF Len(r.feeds) > 0 THEN [scan |-> FALSE, ret |-> Return(r.feeds, "", 0)]
          ELSE IF o.ScanCommonPaths THEN [scan |-> TRUE, ret |-> NoReturn]
          ELSE [scan |-> FALSE, ret |-> Return(<<>>, "no feeds found", 0)]

\* FindFeedsWithOptions from the return of http.Get to its return or to its
\* call of ScanCommonFeedPaths (scan = TRUE).
AfterFetch(resp, u, o) ==
    IF resp.err THEN [scan |-> FALSE, ret |-> Return(<<>>, "request failed", 0)]
    ELSE IF resp.StatusCode < 200 \/ resp.StatusCode >= 300
      THEN [scan |-> FALSE, ret |-> Return(<<>>, "HTTP request failed with status",
                                           resp.StatusCode)]
    ELSE
      LET r == ExtractFeedLinksFromStream(resp.Body, u)
      IN  IF r.err
            THEN [scan |-> FALSE, ret |-> Return(<<>>, "failed to extract head section", 0)]
          ELSE IF Len(r.feeds) > 0 THEN [scan |-> FALSE, ret |-> Return(r.feeds, "", 0)]
          ELSE IF o.ScanCommonPaths THEN [scan |-> TRUE, ret |-> NoReturn]
          ELSE [scan |-> FALSE, ret |-> Return(<<>>, "no feeds found", 0)]

\* FindFeedsWithOptions dropping what the fallback found.
AfterScanNotFound(sr) ==
    IF sr.err # "" THEN Return(<<>>, sr.err, 0)
    ELSE Return(<<>>, "no feeds found", 0)

\* FindFeedsWithOptions returning whatever the fallback returned.
AfterScanPassedOn(sr) ==
    IF sr.err # "" THEN Return(<<>>, sr.err, 0)
    ELSE Return(sr.feeds, "", 0)

\* FindFeedsWithOptions once ScanCommonFeedPaths has returned sr.
AfterScan(sr) ==
    IF sr.err # "" THEN Return(<<>>, sr.err, 0)
    ELSE IF Len(sr.feeds) > 0 THEN Return(sr.feeds, "", 0)
    ELSE Return(<<>>, "no feeds found", 0)

\* http.Get(url) and what follows its return.
FetchPage ==
    /\ fpc = "get"
    /\ \E resp \in PageResponses(url) :
         LET a == AfterFetch(resp, url, opts)
         IN  /\ fpc' = IF a.scan THEN "scan" ELSE "returned"
             /\ spc' = IF a.scan THEN "start" ELSE spc
             /\ ret' = a.ret
             /\ page' = resp
    /\ pageReqs' = pageReqs + 1
    /\ UNCHANGED <<inputVars, checkVars, pureVars, maxConcurrency, parsedURL, launched, feeds, scanRet,
                   chanVars, probeVars, cpc, panicked>>

\* The return of ScanCommonFeedPaths into FindFeedsWithOptions.
FallbackReturn ==
    /\ fpc = "scan"
    /\ spc = "returned"
    /\ fpc' = "returned"
    /\ ret' = AfterScan(scanRet)
    /\ UNCHANGED <<inputVars, checkVars, pureVars, page, pageReqs, scanVars, chanVars, probeVars, cpc,
                   panicked>>

(***************************************************************************)
(* ScanCommonFeedPaths.                                                    *)
(***************************************************************************)
\* maxConcurrency used as the caller gave it.
CoerceNothing(n) == n

\* A non-positive maxConcurrency replaced by 1.
CoerceToOne(n) == IF n <= 0 THEN 1 ELSE n

\* if maxConcurrency <= 0 { maxConcurrency = 3 }
CoerceMaxConcurrency(n) == IF n <= 0 THEN DefaultMaxConcurrency ELSE n

\* A probe URL that keeps the path of the base URL.
FullURLWithPath(u, feedPath) == u.Scheme \o "://" \o u.Host \o u.Path \o feedPath

\* parsedURL.Scheme + "://" + parsedURL.Host + feedPath
FullURL(u, feedPath) == u.Scheme \o "://" \o u.Host \o feedPath

\* A scan that goes on with whatever url.Parse returned.
BaseURLNeverRejected(u) == FALSE

\* parsedURL, err := url.Parse(baseURL); if err != nil
BaseURLRejected(u) == u.err

\* A scan that fails when no probe gave a feed.
ScanResultOrError(fs) ==
    IF Len(fs) = 0 THEN Return(<<>>, "no feeds found", 0) ELSE Return(fs, "", 0)

\* return feeds, nil
ScanResult(fs) == Return(fs, "", 0)

\* From the entry of ScanCommonFeedPaths to the first iteration of its loop.
ScanStart ==
    /\ spc = "start"
    /\ LET n == CoerceMaxConcurrency(opts.MaxConcurrency)
           u == urlParse(url)
       IN  /\ maxConcurrency' = n
           /\ parsedURL' = u
           /\ IF BaseURLRejected(u)
                THEN /\ spc' = "returned"
                     /\ scanRet' = Return(<<>>, "failed to parse base URL", 0)
                     /\ panicked' = panicked
                ELSE IF n < 0
                  THEN \* make(chan struct{}, n) panics on a negative size
                       /\ spc' = "panic"
                       /\ scanRet' = scanRet
                       /\ panicked' = TRUE
                ELSE /\ spc' = "launch"
                     /\ scanRet' = scanRet
                     /\ panicked' = panicked
    /\ UNCHANGED <<inputVars, checkVars, pureVars, findVars, launched, feeds, chanVars, probeVars, cpc>>

\* One iteration of the loop over commonFeedPaths: wg.Add(1); go func(path).
Launch ==
    /\ spc = "launch"
    /\ launched < Len(commonFeedPaths)
    /\ launched' = launched + 1
    /\ wg' = wg + 1
    /\ gpc' = [gpc EXCEPT ![launched + 1] = "acquire"]
    /\ spc' = IF launched + 1 = Len(commonFeedPaths) THEN "closer" ELSE spc
    /\ UNCHANGED <<inputVars, checkVars, pureVars, findVars, maxConcurrency, parsedURL, feeds, scanRet,
                   semaphore, results, closed, feed, headReqs, cpc, panicked>>

\* go func() { wg.Wait(); close(results) }()
StartCloser ==
    /\ spc = "closer"
    /\ spc' = "collect"
    /\ cpc' = "wait"
    /\ UNCHANGED <<inputVars, checkVars, pureVars, findVars, maxConcurrency, parsedURL, launched, feeds,
                   scanRet, chanVars, probeVars, panicked>>

\* A semaphore that admits every sender.
CanAcquireAlways(n, capacity) == TRUE

\* Whether a send on the semaphore channel can proceed.
CanAcquire(n, capacity) == n < capacity

\* semaphore <- struct{}{}, then the HEAD request of checkFeedURL is sent.
Acquire(p) ==
    /\ gpc[p] = "acquire"
    /\ CanAcquire(semaphore, maxConcurrency)
    /\ semaphore' = semaphore + 1
    /\ gpc' = [gpc EXCEPT ![p] = "head"]
    /\ headReqs' = [headReqs EXCEPT ![p] = @ + 1]
    /\ UNCHANGED <<inputVars, checkVars, pureVars, findVars, scanVars, results, closed, wg, feed,
                   cpc, panicked>>

\* HeadFeedType of the Content-Type values and ContentFeedType of the bodies
\* of the responses, computed once.
HeadFeedTypeOf == [header \in ContentTypes |-> HeadFeedType(header)]
ContentFeedTypeOf == [body \in Bodies |-> ContentFeedType(Read(body, SniffSize))]

\* A checkFeedURL that does not look at the status of the HEAD response.
AfterHeadStatusUnchecked(resp, fullURL) ==
    IF resp.err THEN [next |-> "release", feed |-> NoFeed]
    ELSE
      LET feedType == HeadFeedTypeOf[resp.ContentType]
      IN  IF feedType = "" THEN [next |-> "get", feed |-> NoFeed]
          ELSE [next |-> "send", feed |-> Feed(fullURL, "", feedType)]

\* checkFeedURL from the return of http.Head: next is "release" (nil feed or
\* error), "send" (a feed) or "get" (validateFeedContent is called).
AfterHead(resp, fullURL) ==
    IF resp.err THEN [next |-> "release", feed |-> NoFeed]
    ELSE IF resp.StatusCode < 200 \/ resp.StatusCode >= 300
      THEN [next |-> "release", feed |-> NoFeed]
    ELSE
      LET feedType == HeadFeedTypeOf[resp.ContentType]
      IN  IF feedType = "" THEN [next |-> "get", feed |-> NoFeed]
          ELSE [next |-> "send", feed |-> Feed(fullURL, "", feedType)]

\* A validateFeedContent after whose transport error the URL is probed again.
AfterGetProbesAgain(resp, fullURL) ==
    IF resp.err THEN [next |-> "head", feed |-> NoFeed]
    ELSE IF resp.StatusCode < 200 \/ resp.StatusCode >= 300
      THEN [next |-> "release", feed |-> NoFeed]
    ELSE IF resp.readErr THEN [next |-> "release", feed |-> NoFeed]
    ELSE
      LET feedType == ContentFeedTypeOf[resp.Body]
      IN  IF feedType = "" THEN [next |-> "release", feed |-> NoFeed]
          ELSE [next |-> "send", feed |-> Feed(fullURL, "", feedType)]

\* validateFeedContent from the return of http.Get.
AfterGet(resp, fullURL) ==
    IF resp.err THEN [next |-> "release", feed |-> NoFeed]
    ELSE IF resp.StatusCode < 200 \/ resp.StatusCode >= 300
      THEN [next |-> "release", feed |-> NoFeed]
    ELSE IF resp.readErr THEN [next |-> "release", feed |-> NoFeed]
    ELSE
      LET feedType == ContentFeedTypeOf[resp.Body]
      IN  IF feedType = "" THEN [next |-> "release", feed |-> NoFeed]
          ELSE [next |-> "send", feed |-> Feed(fullURL, "", feedType)]

\* http.Head returns in the goroutine of path p.
HeadReturn(p) ==
    /\ gpc[p] = "head"
    /\ \E a \in {AfterHead(resp, FullURL(parsedURL, commonFeedPaths[p])) :
                    resp \in HeadResponses(parsedURL)} :
             /\ gpc' = [gpc EXCEPT ![p] = a.next]
             /\ feed' = [feed EXCEPT ![p] = a.feed]
    /\ UNCHANGED <<inputVars, checkVars, pureVars, findVars, scanVars, chanVars, headReqs, cpc, panicked>>

\* http.Get and the Read of the body return in the goroutine of path p.
GetReturn(p) ==
    /\ gpc[p] = "get"
    /\ \E a \in {AfterGet(resp, FullURL(parsedURL, commonFeedPaths[p])) :
                    resp \in GetResponses} :
             /\ gpc' = [gpc EXCEPT ![p] = a.next]
             /\ feed' = [feed EXCEPT ![p] = a.feed]
    /\ UNCHANGED <<inputVars, checkVars, pureVars, findVars, scanVars, chanVars, headReqs, cpc,
                   panicked>>

\* results <- *feed: blocks while the buffer is full, panics on a closed channel.
Send(p) ==
    /\ gpc[p] = "send"
    /\ closed > 0 \/ Len(results) < Len(commonFeedPaths)
    /\ IF closed > 0
         THEN /\ panicked' = TRUE
              /\ results' = results
         ELSE /\ panicked' = panicked
              /\ results' = Append(results, feed[p])
    /\ gpc' = [gpc EXCEPT ![p] = "release"]
    /\ UNCHANGED <<inputVars, checkVars, pureVars, findVars, scanVars, semaphore, closed, wg, feed,
                   headReqs, cpc>>

\* The deferred <-semaphore.
Release(p) ==
    /\ gpc[p] = "release"
    /\ semaphore > 0
    /\ semaphore' = semaphore - 1
    /\ gpc' = [gpc EXCEPT ![p] = "done"]
    /\ UNCHANGED <<inputVars, checkVars, pureVars, findVars, scanVars, results, closed, wg, feed, headReqs,
                   cpc, panicked>>

\* The deferred wg.Done(); the goroutine ends.
Done(p) ==
    /\ gpc[p] = "done"
    /\ wg' = wg - 1
    /\ gpc' = [gpc EXCEPT ![p] = "exit"]
    /\ UNCHANGED <<inputVars, checkVars, pureVars, findVars, scanVars, semaphore, results, closed, feed,
                   headReqs, cpc, panicked>>

\* A Wait that returns while one goroutine has not called Done.
WaitReturnsBeforeLast(counter) == counter <= 1

\* Whether wg.Wait() returns.
WaitReturns(counter) == counter = 0

\* wg.Wait() returns in the closing goroutine.
CloserWait ==
    /\ cpc = "wait"
    /\ WaitReturns(wg)
    /\ cpc' = "close"
    /\ UNCHANGED <<inputVars, checkVars, pureVars, findVars, scanVars, chanVars, probeVars, panicked>>

\* close(results): panics on a closed channel.
CloserClose ==
    /\ cpc = "close"
    /\ closed' = closed + 1
    /\ panicked' = (panicked \/ closed > 0)
    /\ cpc' = "exit"
    /\ UNCHANGED <<inputVars, checkVars, pureVars, findVars, scanVars, semaphore, results, wg, probeVars>>

\* A loop that keeps the last element received only.
CollectedLast(fs, f) == <<f>>

\* The slice after one iteration of "for feed := range results".
Collected(fs, f) == Append(fs, f)

\* One iteration of the range loop: a buffered element is received.
Collect ==
    /\ spc = "collect"
    /\ Len(results) > 0
    /\ feeds' = Collected(feeds, Head(results))
    /\ results' = Tail(results)
    /\ UNCHANGED <<inputVars, checkVars, pureVars, findVars, spc, maxConcurrency, parsedURL, launched,
                   scanRet, semaphore, closed, wg, probeVars, cpc, panicked>>

\* A loop that ends as soon as the buffer is empty.
RangeEndsWhenEmpty(buffered, nclosed) == Len(buffered) = 0

\* Whether the range loop ends: the channel is closed and drained.
RangeEnds(buffered, nclosed) == Len(buffered) = 0 /\ nclosed > 0

\* The range loop ends and ScanCommonFeedPaths returns feeds, nil.
ScanReturn ==
    /\ spc = "collect"
    /\ RangeEnds(results, closed)
    /\ spc' = "returned"
    /\ scanRet' = ScanResult(feeds)
    /\ UNCHANGED <<inputVars, checkVars, pureVars, findVars, maxConcurrency, parsedURL, launched, feeds,
                   chanVars, probeVars, cpc, panicked>>

(***************************************************************************)
(* The functions that send no request, called on their own.                *)
(***************************************************************************)
CallResolveFeedURL ==
    /\ ppc = "call"
    /\ entry = "ResolveFeedURL"
    /\ out' = [NoOut EXCEPT !.url = ResolveFeedURL(href, url)]
    /\ ppc' = "returned"
    /\ UNCHANGED <<inputVars, checkVars, findVars, scanVars, chanVars, probeVars, cpc, panicked,
                   href, html, reader>>

CallExtractFeedLinks ==
    /\ ppc = "call"
    /\ entry = "ExtractFeedLinks"
    /\ out' = [NoOut EXCEPT !.feeds = ExtractFeedLinks(html, url)]
    /\ ppc' = "returned"
    /\ UNCHANGED <<inputVars, checkVars, findVars, scanVars, chanVars, probeVars, cpc, panicked,
                   href, html, reader>>

CallExtractFeedLinksFromStream ==
    /\ ppc = "call"
    /\ entry = "ExtractFeedLinksFromStream"
    /\ LET r == ExtractFeedLinksFromStream(reader, url)
       IN  out' = [NoOut EXCEPT !.feeds = r.feeds, !.err = r.err, !.lo = r.lo, !.hi = r.hi,
                              !.steps = r.steps]
    /\ ppc' = "returned"
    /\ UNCHANGED <<inputVars, checkVars, findVars, scanVars, chanVars, probeVars, cpc, panicked,
                   href, html, reader>>

CallExtractHeadSection ==
    /\ ppc = "call"
    /\ entry = "extractHeadSection"
    /\ LET r == extractHeadSection(reader)
       IN  out' = [NoOut EXCEPT !.head = r.head, !.err = r.err]
    /\ ppc' = "returned"
    /\ UNCHANGED <<inputVars, checkVars, findVars, scanVars, chanVars, probeVars, cpc, panicked,
                   href, html, reader>>

\* The steps of a call of one of them.
NextPure ==
    \/ CallResolveFeedURL
    \/ CallExtractFeedLinks
    \/ CallExtractFeedLinksFromStream
    \/ CallExtractHeadSection

\* checkFeedURL sends its HEAD request.
CheckHead ==
    /\ checkPc = "call"
    /\ requests' = Append(requests, [method |-> "HEAD",
                                     url |-> FullURL(urlParse(url), checkPath)])
    /\ checkPc' = "head"
    /\ UNCHANGED <<inputVars, pureVars, findVars, scanVars, chanVars, probeVars, cpc, panicked,
                   checkPath, headResp, getResp, checkRet>>

\* http.Head returns: checkFeedURL returns, or validateFeedContent sends its
\* GET request.
CheckHeadReturn ==
    /\ checkPc = "head"
    /\ \E resp \in HeadResponses(urlParse(url)) :
         LET fullURL == FullURL(urlParse(url), checkPath)
             a == AfterHead(resp, fullURL)
         IN  /\ headResp' = resp
             /\ IF a.next = "get"
                  THEN /\ requests' = Append(requests, [method |-> "GET", url |-> fullURL])
                       /\ checkPc' = "get"
                       /\ UNCHANGED checkRet
                  ELSE /\ checkRet' = a.feed
                       /\ checkPc' = "returned"
                       /\ UNCHANGED requests
    /\ UNCHANGED <<inputVars, pureVars, findVars, scanVars, chanVars, probeVars, cpc, panicked,
                   checkPath, getResp>>

\* http.Get and the Read of the body return: validateFeedContent and
\* checkFeedURL return.
CheckGetReturn ==
    /\ checkPc = "get"
    /\ \E resp \in GetResponses :
         /\ getResp' = resp
         /\ checkRet' = AfterGet(resp, FullURL(urlParse(url), checkPath)).feed
    /\ checkPc' = "returned"
    /\ UNCHANGED <<inputVars, pureVars, findVars, scanVars, chanVars, probeVars, cpc, panicked,
                   checkPath, requests, headResp>>

\* The steps of a call of checkFeedURL.
NextProbe ==
    \/ CheckHead
    \/ CheckHeadReturn
    \/ CheckGetReturn

\* The steps of a call of ScanCommonFeedPaths.
NextScan ==
    \/ ScanStart
    \/ Launch
    \/ StartCloser
    \/ \E p \in Paths : Acquire(p)
    \/ \E p \in Paths : HeadReturn(p)
    \/ \E p \in Paths : GetReturn(p)
    \/ \E p \in Paths : Send(p)
    \/ \E p \in Paths : Release(p)
    \/ \E p \in Paths : Done(p)
    \/ CloserWait
    \/ CloserClose
    \/ Collect
    \/ ScanReturn

Next ==
    \/ FetchPage
    \/ FallbackReturn
    \/ NextScan
    \/ NextPure
    \/ NextProbe

\* A call of any entry point.
Spec == Init /\ [][Next]_vars

\* A call of FindFeeds or FindFeedsWithOptions.
InitFind == Init /\ entry \in {"FindFeeds", "FindFeedsWithOptions"}

NextFind ==
    \/ FetchPage
    \/ FallbackReturn
    \/ NextScan

FindSpec == InitFind /\ [][NextFind]_vars

\* A call of ResolveFeedURL, ExtractFeedLinks, ExtractFeedLinksFromStream or
\* extractHeadSection.
InitPure == Init /\ entry \in PureEntries

PureSpec == InitPure /\ [][NextPure]_vars

\* A call of checkFeedURL.
InitProbe == Init /\ entry \in ProbeEntries

ProbeSpec == InitProbe /\ [][NextProbe]_vars

\* A call of ScanCommonFeedPaths, under any scheduling of its goroutines.
InitScan == Init /\ entry = "ScanCommonFeedPaths"

ScanSpec == InitScan /\ [][NextScan]_vars

\* The same call under fair scheduling: the calling goroutine, the closing
\* goroutine and every probe goroutine take a step they can take, so that
\* in particular every HEAD and GET request returns.
Main == ScanStart \/ Launch \/ StartCloser \/ Collect \/ ScanReturn
Closer == CloserWait \/ CloserClose
Goroutine(p) ==
    Acquire(p) \/ HeadReturn(p) \/ GetReturn(p) \/ Send(p) \/ Release(p) \/ Done(p)

FairScanSpec ==
    /\ InitScan
    /\ [][NextScan]_vars
    /\ WF_vars(Main)
    /\ WF_vars(Closer)
    /\ \A p \in Paths : WF_vars(Goroutine(p))

(***************************************************************************)
(* Properties of ScanCommonFeedPaths.                                      *)
(***************************************************************************)
\* The probes between the acquire and the release of the semaphore.
InFlight == {p \in Paths : gpc[p] \in {"head", "get", "send", "release"}}

\* The paths whose validation gave a feed.
Accepted == {p \in Paths : feed[p] # NoFeed}

\* ScanCommonFeedPaths returned from its last line.
ScanCompleted == spc = "returned" /\ scanRet.err = ""

\* C1: with maxConcurrency = N >= 1, at most N probes are between the acquire
\* and the release of the semaphore, in every reachable state.
C1_AtMostNInFlight ==
    opts.MaxConcurrency >= 1 => Cardinality(InFlight) <= opts.MaxConcurrency

\* A probe holds the only slot while another waits for it.
C1_Witness ==
    /\ opts.MaxConcurrency = 1
    /\ \E p, q \in Paths : gpc[p] \in {"head", "get"} /\ gpc[q] = "acquire"

\* C2: when ScanCommonFeedPaths has returned from its last line, every probe
\* was started and has finished; none is pending or in flight.
C2_ReturnsAfterAllProbes ==
    ScanCompleted => \A p \in Paths : headReqs[p] = 1 /\ gpc[p] = "exit"

\* The call returned with the feed of one path after another path failed.
C2_Witness ==
    /\ ScanCompleted
    /\ \E p, q \in Paths : feed[p] # NoFeed /\ feed[q] = NoFeed
    /\ Len(scanRet.feeds) = 1

\* C3: under fair scheduling, and with every request returning, a call of
\* ScanCommonFeedPaths returns, whatever the value of maxConcurrency.
C3_ScanReturns == (spc = "start") ~> (spc = "returned")

\* A call with a negative maxConcurrency returned a feed.
C3_Witness ==
    /\ ScanCompleted
    /\ opts.MaxConcurrency < 0
    /\ Len(scanRet.feeds) > 0

\* C4: the collection returned holds exactly one Feed for each path whose
\* validation accepted, the very Feed the validation built for that path's
\* URL, and nothing else.
C4_ExactlyTheAccepted ==
    ScanCompleted =>
      /\ Len(scanRet.feeds) = Cardinality(Accepted)
      /\ \A p \in Accepted :
           /\ feed[p].URL = FullURL(urlParse(url), AllCommonFeedPaths[p])
           /\ Cardinality({i \in DOMAIN scanRet.feeds : scanRet.feeds[i] = feed[p]}) = 1
           /\ Cardinality({i \in DOMAIN scanRet.feeds :
                             scanRet.feeds[i].URL = feed[p].URL}) = 1

\* Two paths were accepted with different kinds and the later path's feed
\* was collected first.
C4_Witness ==
    /\ ScanCompleted
    /\ Len(scanRet.feeds) = 2
    /\ scanRet.feeds[1] = feed[2]
    /\ scanRet.feeds[2] = feed[1]
    /\ feed[1].Type = "atom"
    /\ feed[2].Type = "json"

\* C5: no outcome of a probe gives an error or a panic, or keeps another
\* path from being probed: with a baseURL that url.Parse accepts the call
\* returns a nil error after probing every path.
C5_ProbeFailuresSwallowed ==
    /\ ~panicked
    /\ (spc = "returned" /\ ~urlParse(url).err) =>
         /\ scanRet.err = ""
         /\ \A p \in Paths : headReqs[p] = 1

\* Every probe failed and the call returned no feed and no error.
C5_Witness ==
    /\ spc = "returned"
    /\ url = DeepURL
    /\ Accepted = {}
    /\ \A p \in Paths : headReqs[p] = 1
    /\ scanRet = Return(<<>>, "", 0)

\* The base URL has a scheme and a host.
HasSchemeAndHost(baseURL) ==
    LET u == urlParse(baseURL) IN ~u.err /\ u.Scheme # "" /\ u.Host # ""

\* C6, as claimed: ScanCommonFeedPaths returns an error exactly when baseURL
\* does not give a scheme and a host, and then sends no probe request.
C6_ErrorIffNoSchemeAndHost ==
    spc = "returned" =>
      /\ scanRet.err # "" <=> ~HasSchemeAndHost(url)
      /\ scanRet.err # "" => \A p \in Paths : headReqs[p] = 0

\* C6, amended: ScanCommonFeedPaths returns an error exactly when url.Parse
\* rejects baseURL, and then starts no goroutine and sends no probe request; a
\* baseURL that url.Parse accepts gives no error, with or without a scheme
\* and a host.
C6_ErrorIffParseFails ==
    spc = "returned" =>
      /\ scanRet.err # "" <=> url = BadURL
      /\ scanRet.err # "" =>
           /\ scanRet = Return(<<>>, "failed to parse base URL", 0)
           /\ \A p \in Paths : headReqs[p] = 0 /\ gpc[p] = "unborn"

\* The call returned the parse error.
C6_Witness ==
    /\ spc = "returned"
    /\ url = BadURL
    /\ scanRet.err = "failed to parse base URL"

PageFetched == ~page.err /\ page.StatusCode >= 200 /\ page.StatusCode <= 299

\* The link elements that qualify in the head of the pages with feeds, in
\* document order, resolved against DeepURL.
PrimaryOf(body) ==
    CASE body = PageOneFeed ->
           <<Feed("https://example.com/feed.xml", "Example RSS Feed", "rss")>>
      [] body = PageTwoFeeds ->
           <<Feed("https://example.com:8080/atom.xml", "Atom Feed", "atom"),
             Feed("https://example.com:8080/blog/feed.json", "", "json")>>
      [] body = PageBadHref -> <<Feed("://invalid-url", "Bad href", "rss")>>
      [] OTHER -> <<>>

\* The pages whose head has no link element that qualifies.
NoCandidatePages == {PageNoFeeds, PageOtherLinks}

\* No request was sent to a fallback path (a GET follows a HEAD only).
NoProbeSent == spc = "idle" /\ \A p \in Paths : headReqs[p] = 0 /\ gpc[p] = "unborn"

\* C8: when the primary scan of the fetched page yields a candidate, the
\* call returns those candidates in document order and sends no request to a
\* fallback path, whatever ScanCommonPaths is.
C8_PrimaryWins ==
    (PageFetched /\ PrimaryOf(page.Body) # <<>>) =>
      /\ fpc = "returned"
      /\ ret = Return(PrimaryOf(page.Body), "", 0)
      /\ NoProbeSent
      /\ pageReqs = 1

\* The fallback was enabled and the page had two feed links in its head.
C8_Witness ==
    /\ fpc = "returned"
    /\ opts.ScanCommonPaths
    /\ PageFetched
    /\ page.Body = PageTwoFeeds
    /\ Len(ret.feeds) = 2

RequestErrors == {"request failed", "HTTP request failed with status"}
NotFoundError == "no feeds found"
ExtractionError == "failed to extract head section"

\* C11: when the page fetch returns a status outside 200..299, the call
\* fails with the request error carrying that status, returns no feed (the
\* body, which has a feed link, is not scanned) and sends no request to a
\* fallback path, whatever ScanCommonPaths is.
C11_NonSuccessStatusFails ==
    (~page.err /\ page.StatusCode \notin 200..299) =>
      /\ fpc = "returned"
      /\ ret = Return(<<>>, "HTTP request failed with status", page.StatusCode)
      /\ NoProbeSent
      /\ pageReqs = 1

\* A 301 whose body has a feed link, with the fallback enabled.
C11_Witness ==
    /\ fpc = "returned"
    /\ opts.ScanCommonPaths
    /\ ~page.err
    /\ page.StatusCode = 301
    /\ page.Body = PageOneFeed
    /\ ret.status = 301
    /\ ret.feeds = <<>>

\* The fetched page gave no candidate and neither did the fallback, when enabled.
NothingFound ==
    /\ PageFetched
    /\ page.Body \in NoCandidatePages
    /\ opts.ScanCommonPaths => Accepted = {}

C13_FeedsXorError ==
    fpc = "returned" =>
      \/ Len(ret.feeds) > 0 /\ ret.err = ""
      \/ ret.feeds = <<>> /\ ret.err # ""

\* The fallback ran and found nothing: the call returned the not-found
\* error and no feed.
C13_Witness ==
    /\ fpc = "returned"
    /\ ScanCompleted
    /\ scanRet.feeds = <<>>
    /\ ret = Return(<<>>, NotFoundError, 0)

(***************************************************************************)
(* Properties of the feeds emitted.                                        *)
(***************************************************************************)
\* The elements of a sequence.
Range(seq) == {seq[i] : i \in DOMAIN seq}

\* The feeds the link classifier emitted: the result of ExtractFeedLinks or
\* ExtractFeedLinksFromStream, or what FindFeedsWithOptions returned from the
\* head of the page.
ClassifierFeeds ==
    Range(out.feeds) \cup (IF spc = "idle" THEN Range(ret.feeds) ELSE {})

\* The feeds the prober emitted.
ProberFeeds ==
    {feed[p] : p \in Accepted} \cup Range(results) \cup Range(feeds)
      \cup Range(scanRet.feeds) \cup (IF spc # "idle" THEN Range(ret.feeds) ELSE {})

\* The string is an absolute URL: a scheme, "://" and a host.
IsAbsoluteURL(s) ==
    \E i \in 2..(Len(s) - 3) :
      /\ SubSeq(s, i, i + 2) = "://"
      /\ \A j \in 1..(i - 1) : SubSeq(s, j, j) \notin {":", "/", "?", "#"}
      /\ SubSeq(s, i + 3, i + 3) \notin {"/", "?", "#"}

\* The hrefs of the link elements of a document.
HrefsOf(lines) == {t.href : t \in Range(Flatten(lines))}

\* The document the classifier was given.
ClassifierInput ==
    CASE entry = "ExtractFeedLinks" -> html
      [] entry = "ExtractFeedLinksFromStream" -> reader.lines
      [] OTHER -> page.Body.lines

C15_TypeIsRssAtomJson ==
    /\ \A f \in ClassifierFeeds \cup ProberFeeds : f.Type \in {"rss", "atom", "json"}
    /\ (entry = "ExtractFeedLinks" /\ ppc = "returned" /\ html \in SingleLinkFragments
          /\ html[1][1].type \in {"text/xml", "text/html", "",
                                  "application/rss+xml; charset=utf-8"}) =>
         out.feeds = <<>>

\* A link element of type text/xml, rel alternate and with an href gave no Feed.
C15_Witness ==
    /\ entry = "ExtractFeedLinks"
    /\ ppc = "returned"
    /\ html = << <<Link("alternate", "text/xml", "feed.json", "My Feed")>> >>
    /\ out.feeds = <<>>

(***************************************************************************)
(* Properties of the link classifier and of the URL resolver.              *)
(***************************************************************************)
\* A call of ExtractFeedLinks on a fragment with one link element returned.
OneLinkClassified ==
    entry = "ExtractFeedLinks" /\ ppc = "returned" /\ html \in SingleLinkFragments

\* The spellings of "alternate" and the kind of each spelling of a MIME type
\* of the table ("": the type is not in the table).
AlternateRels == {"alternate", "ALTERNATE", "Alternate"}
KindOfType(type) ==
    CASE type \in {"application/rss+xml", "APPLICATION/RSS+XML"} -> "rss"
      [] type \in {"application/atom+xml", "Application/Atom+XML"} -> "atom"
      [] type \in {"application/json", "application/feed+json"} -> "json"
      [] OTHER -> ""

\* The element is a link element that qualifies.
Qualifies(el) ==
    /\ el.tag = "<link>"
    /\ el.rel \in AlternateRels
    /\ el.href # ""
    /\ KindOfType(el.type) # ""

\* C16: ExtractFeedLinks gives a candidate for a link element exactly when
\* its rel is a spelling of "alternate", its href is not empty and its type
\* is a spelling of one of the four types of the table; any other element
\* gives no candidate, and no error.
C16_CandidateIffQualifies ==
    OneLinkClassified =>
      /\ Len(out.feeds) = IF Qualifies(html[1][1]) THEN 1 ELSE 0
      /\ ~out.err

\* A link element with a rel of two tokens gave no candidate.
C16_Witness ==
    /\ OneLinkClassified
    /\ html = << <<Link("alternate nofollow", MimeTypeRSS, "feed.json", "My Feed")>> >>
    /\ out = NoOut

\* C17: the candidate of a link element that qualifies has the kind of its
\* type (rss, atom, and json for both JSON types) and the title attribute as
\* it is written, the empty string when there is none.
C17_KindAndTitle ==
    (OneLinkClassified /\ Qualifies(html[1][1])) =>
      /\ Len(out.feeds) = 1
      /\ out.feeds[1].Type = KindOfType(html[1][1].type)
      /\ out.feeds[1].Title = html[1][1].title

\* A link element of type application/atom+xml with a title in mixed case.
C17_Witness ==
    /\ OneLinkClassified
    /\ url = GoodURL
    /\ html = << <<Link("alternate", MimeTypeAtom, "feed.json", "My Feed")>> >>
    /\ out.feeds = <<Feed("https://example.com/feed.json", "My Feed", "atom")>>

\* The lower-case form of a rel or type value.
FoldCase(v) ==
    CASE v \in {"ALTERNATE", "Alternate"} -> "alternate"
      [] v = "APPLICATION/RSS+XML" -> "application/rss+xml"
      [] v = "Application/Atom+XML" -> "application/atom+xml"
      [] OTHER -> v

\* C18: a link element whose rel and type are written with upper-case
\* letters gives what the element with rel and type in lower case gives: the
\* same url, title and kind, the href and the title in their own case.
C18_CaseInsensitive ==
    OneLinkClassified =>
      LET el == html[1][1]
          lower == [el EXCEPT !.rel = FoldCase(el.rel), !.type = FoldCase(el.type)]
      IN  /\ out.feeds = ExtractFeedLinks(<< <<lower>> >>, url)
          /\ (el.rel = "ALTERNATE" /\ el.type = "APPLICATION/RSS+XML" /\ el.href # "") =>
               /\ Len(out.feeds) = 1
               /\ out.feeds[1].Type = "rss"
               /\ out.feeds[1].Title = el.title
               /\ (el.href = "/Atom.XML" /\ url = GoodURL) =>
                    out.feeds[1].URL = "https://example.com/Atom.XML"

\* REL="ALTERNATE" TYPE="APPLICATION/RSS+XML" with an href and a title in
\* mixed case.
C18_Witness ==
    /\ OneLinkClassified
    /\ url = GoodURL
    /\ html = << <<Link("ALTERNATE", "APPLICATION/RSS+XML", "/Atom.XML", "My Feed")>> >>
    /\ out.feeds = <<Feed("https://example.com/Atom.XML", "My Feed", "rss")>>

\* C19: the sequence ExtractFeedLinks returns has one candidate for each
\* link element that qualifies, in the order of the elements in the
\* fragment; an element that occurs twice gives two candidates.
C19_DocumentOrder ==
    (entry = "ExtractFeedLinks" /\ ppc = "returned") =>
      LET q == SelectSeq(Flatten(html), Qualifies)
      IN  /\ Len(out.feeds) = Len(q)
          /\ \A i \in DOMAIN q :
               /\ out.feeds[i].Title = q[i].title
               /\ out.feeds[i].Type = KindOfType(q[i].type)
               /\ HasPrefix(q[i].href, "https://") => out.feeds[i].URL = q[i].href

\* The atom link, then the rss link twice.
C19_Witness ==
    /\ entry = "ExtractFeedLinks"
    /\ url = GoodURL
    /\ html = << <<Link("ALTERNATE", MimeTypeAtom, "/Atom.XML", "Atom"),
                   Link("alternate", MimeTypeRSS, "https://example.com/feed.xml", "RSS"),
                   Link("alternate", MimeTypeRSS, "https://example.com/feed.xml", "RSS")>> >>
    /\ out.feeds = <<Feed("https://example.com/Atom.XML", "Atom", "atom"),
                     Feed("https://example.com/feed.xml", "RSS", "rss"),
                     Feed("https://example.com/feed.xml", "RSS", "rss")>>

\* The hrefs given to ResolveFeedURL that begin with http:// or https://.
HTTPHrefs ==
    {"https://example.com/feed.xml", "http://example.com/feed.xml",
     "https://example.com/blog/../feed.xml", "http://[invalid"}

\* C20: ResolveFeedURL returns an href that begins with http:// or https://
\* as it is, whatever the base URL, and so returns an http(s) URL it has
\* returned as it is when given it again.
C20_AbsoluteHrefUnchanged ==
    (entry = "ResolveFeedURL" /\ ppc = "returned") =>
      /\ href \in HTTPHrefs => out.url = href
      /\ (HasPrefix(out.url, "http://") \/ HasPrefix(out.url, "https://")) =>
           ResolveFeedURL(out.url, url) = out.url

\* An https href with a dot segment, under a base URL that does not parse.
C20_Witness ==
    /\ entry = "ResolveFeedURL"
    /\ ppc = "returned"
    /\ url = BadURL
    /\ href = "https://example.com/blog/../feed.xml"
    /\ out.url = "https://example.com/blog/../feed.xml"

\* A call of ResolveFeedURL returned.
Resolved == entry = "ResolveFeedURL" /\ ppc = "returned"

\* The hrefs and base URLs given to ResolveFeedURL that url.Parse rejects.
UnparsableInputs == {"://invalid-url", "http://[invalid"}

\* C21: ResolveFeedURL always returns a string: when the base URL or the
\* href does not parse, the href as it was given.
C21_HrefVerbatimOnParseFailure ==
    Resolved =>
      /\ ~out.err
      /\ (url \in UnparsableInputs \/ href \in UnparsableInputs) => out.url = href

\* A relative href under a base URL that does not parse.
C21_Witness ==
    /\ Resolved
    /\ url = "://invalid-url"
    /\ href = "/feed.xml"
    /\ out.url = "/feed.xml"

\* The origin and the directory of the base URLs that have a scheme and a host.
OriginOf(base) ==
    CASE base = "https://example.com" -> "https://example.com"
      [] base = "https://example.com/blog/" -> "https://example.com"
      [] base = "https://example.com:8080/blog/index.html?page=2#top" ->
           "https://example.com:8080"
DirectoryOf(base) ==
    CASE base = "https://example.com" -> "/"
      [] base = "https://example.com/blog/" -> "/blog/"
      [] base = "https://example.com:8080/blog/index.html?page=2#top" -> "/blog/"

\* C22: for a relative href and a base URL with a scheme and a host,
\* ResolveFeedURL returns the origin of the base followed by the href when it
\* begins with a slash, and by the directory of the base and the href when
\* it does not.
C22_RelativeResolution ==
    (Resolved /\ url \in {GoodURL, BlogURL, DeepURL}
       /\ href \in {"/feed.xml", "feed.xml", "blog/feed.xml", "/Atom.XML", "feed.json"}) =>
      out.url = OriginOf(url) \o (IF SubSeq(href, 1, 1) = "/" THEN href
                                  ELSE DirectoryOf(url) \o href)

\* "feed.xml" on https://example.com/blog/.
C22_Witness ==
    /\ Resolved
    /\ url = "https://example.com/blog/"
    /\ href = "feed.xml"
    /\ out.url = "https://example.com/blog/feed.xml"

(***************************************************************************)
(* The head extractor.                                                     *)
(***************************************************************************)

HeadExtracted == entry = "extractHeadSection" /\ ppc = "returned"
StreamExtracted == entry = "ExtractFeedLinksFromStream" /\ ppc = "returned"

\* The lines of a document in lower case.
LowerLines(r) == [i \in DOMAIN r.lines |-> ToLower(LineText(r.lines[i]))]

\* Line i of the document contains the tag.
HasOn(r, i, tag) == Contains(LowerLines(r)[i], tag)

\* Line i of the document does not fit the buffer of a bufio.Scanner.
TooLongLine(r, i) == LineSize(r.lines[i]) >= MaxScanTokenSize

\* The lines that contain <head, and the first of them.
OpeningLines(r) == {i \in DOMAIN r.lines : HasOn(r, i, "<head")}
Open(r) == CHOOSE i \in OpeningLines(r) : \A j \in OpeningLines(r) : i <= j

\* The index of the first tag of the document that contains the text, and
\* one more than the number of tags when none does.
FirstTag(r, text) ==
    LET flat == ToLower(LineText(Flatten(r.lines)))
        at == {i \in DOMAIN flat : Contains(<<flat[i]>>, text)}
    IN  IF at = {} THEN Len(flat) + 1 ELSE CHOOSE i \in at : \A j \in at : i <= j

\* C23, as claimed: for every input in which a <body tag occurs before the
\* first <head tag, extractHeadSection returns the empty fragment and no
\* error.
C23_BodyBeforeHeadIsEmpty ==
    (HeadExtracted /\ FirstTag(reader, "<body") < FirstTag(reader, "<head")) =>
      (out.head = <<>> /\ ~out.err)

\* The scanner gives line j, which contains </head>, while the extractor
\* accumulates: a line before it opens the head, no line before the opening
\* line contains <body, no line from the opening line on contains </head> or
\* <body, and every line up to j fits the scanner's buffer.
ClosedAt(r, j) ==
    /\ OpeningLines(r) # {}
    /\ j >= Open(r)
    /\ HasOn(r, j, "</head>")
    /\ \A k \in 1..(Open(r) - 1) : ~HasOn(r, k, "<body")
    /\ \A k \in Open(r)..(j - 1) : ~HasOn(r, k, "</head>") /\ ~HasOn(r, k, "<body")
    /\ \A k \in 1..j : ~TooLongLine(r, k)

\* C24: when the extractor reaches a line with </head>, in any letter case,
\* while it accumulates, it returns the lines from the first line with <head
\* through that line, each with its line feed, and no error, whatever the
\* later lines are and whether or not the reader fails after them.
C24_HeadThroughClosingLine ==
    HeadExtracted =>
      \A j \in DOMAIN reader.lines :
        ClosedAt(reader, j) =>
          (~out.err /\ out.head = SubSeq(reader.lines, Open(reader), j))

\* An opening tag with an attribute, the closing tag in upper case with the
\* body after it on its line, then a line that the scanner could not have
\* given, on a reader that fails at the end.
C24_Witness ==
    /\ HeadExtracted
    /\ Len(reader.lines) = 3
    /\ reader.lines[1] = <<Tag("<HEAD lang=\"en\">")>>
    /\ reader.lines[2] = <<Tag("</HEAD>"), Tag("<body>"), BodyLink>>
    /\ reader.lines[3] = <<Tag("[text of 65536 bytes]")>>
    /\ reader.fails
    /\ out.head = SubSeq(reader.lines, 1, 2)
    /\ ~out.err

\* The scanner gives line k, which contains <body and not </head>, while the
\* extractor accumulates.
AbortedAt(r, k) ==
    /\ OpeningLines(r) # {}
    /\ k >= Open(r)
    /\ HasOn(r, k, "<body")
    /\ ~HasOn(r, k, "</head>")
    /\ \A i \in 1..(Open(r) - 1) : ~HasOn(r, i, "<body")
    /\ \A i \in Open(r)..(k - 1) : ~HasOn(r, i, "</head>") /\ ~HasOn(r, i, "<body")
    /\ \A i \in 1..k : ~TooLongLine(r, i)

\* C25: when the extractor reaches a line with <body and without </head>
\* while it accumulates, it returns the empty fragment and no error.
C25_BodyInOpenHeadIsEmpty ==
    HeadExtracted =>
      \A k \in DOMAIN reader.lines :
        AbortedAt(reader, k) => (out.head = <<>> /\ ~out.err)

\* An opened head with a feed link, then a body line.
C25_Witness ==
    /\ HeadExtracted
    /\ reader.lines = << <<Tag("<HEAD lang=\"en\">")>>, <<HeadLink>>, <<Tag("<Body>"), BodyLink>> >>
    /\ out.head = <<>>
    /\ ~out.err

\* C26, as claimed: when the reader does not fail and the stream ends after a
\* line with <head, with no line with </head> after it and no line with
\* <body, extractHeadSection returns the lines from the opening line on;
\* when no line contains <head it returns the empty fragment; both without
\* an error.
C26_PartialHeadAtEnd ==
    (HeadExtracted /\ ~reader.fails) =>
      /\ OpeningLines(reader) = {} => (out.head = <<>> /\ ~out.err)
      /\ ( /\ OpeningLines(reader) # {}
           /\ \A i \in DOMAIN reader.lines : ~HasOn(reader, i, "<body")
           /\ \A i \in Open(reader)..Len(reader.lines) : ~HasOn(reader, i, "</head>") ) =>
           ( /\ ~out.err
             /\ out.head = SubSeq(reader.lines, Open(reader), Len(reader.lines)) )

\* The tags of a document before its first </head> or <body.
HeadTags(r) ==
    LET flat == Flatten(r.lines)
        end == IF FirstTag(r, "</head>") < FirstTag(r, "<body")
                 THEN FirstTag(r, "</head>") ELSE FirstTag(r, "<body")
    IN  SubSeq(flat, 1, end - 1)

\* C27, as claimed: every candidate of ExtractFeedLinksFromStream comes from
\* a link element before the </head> tag, however the document is laid out
\* into lines.
C27_HeadLinksOnly ==
    StreamExtracted =>
      Range(out.feeds) \subseteq Range(ExtractFeedLinks(<<HeadTags(reader)>>, url))

\* C28, as claimed: extractHeadSection and ExtractFeedLinksFromStream return
\* an error only when the reader fails.
C28_ErrorOnlyOnReadFailure ==
    (HeadExtracted \/ StreamExtracted) => (out.err => reader.fails)

\* The first n bytes of a document.
RECURSIVE TakeBytes(_, _)
TakeBytes(lines, n) ==
    IF lines = <<>> \/ n <= 0 THEN <<>>
    ELSE IF LineSize(Head(lines)) + 1 <= n
      THEN <<Head(lines)>> \o TakeBytes(Tail(lines), n - LineSize(Head(lines)) - 1)
    ELSE <<CutLine(Head(lines), n)>>

\* C29: the loop of a call of ExtractFeedLinksFromStream takes at least one
\* byte from the reader at each turn and at most MaxHeadSize bytes in all, so
\* that the call ends on a stream without end and without markup too; and its
\* result is the one for the first MaxHeadSize bytes of the stream, with a
\* failure of the reader counting only when the stream is shorter than that.
C29_ConsumptionCapped ==
    StreamExtracted =>
      LET first == [lines |-> TakeBytes(reader.lines, MaxHeadSize),
                    fails |-> reader.fails /\ StreamSize(reader.lines) < MaxHeadSize]
          h == extractHeadSection(first)
      IN  /\ out.steps <= out.lo
          /\ out.lo <= out.hi
          /\ out.hi <= MaxHeadSize
          /\ out.err = h.err
          /\ out.feeds = IF h.err THEN <<>> ELSE ExtractFeedLinks(h.head, url)

\* A stream longer than MaxHeadSize whose head opens in its first line and
\* has its feed link beyond MaxHeadSize bytes, on a reader that fails at the
\* end of the stream.
C29_Witness ==
    /\ StreamExtracted
    /\ StreamSize(reader.lines) > MaxHeadSize
    /\ reader.lines[1] = <<Tag("<head>")>>
    /\ reader.lines[2] # <<HeadLink>>
    /\ HeadLink \in Range(Flatten(reader.lines))
    /\ reader.fails
    /\ out.feeds = <<>>
    /\ ~out.err
    /\ out.hi = MaxHeadSize
    /\ out.steps = FillerLines + 1

(***************************************************************************)
(* The two stages of a probe.                                              *)
(***************************************************************************)

\* The url argument of the call of checkFeedURL.
CheckedURL == FullURL(urlParse(url), checkPath)

\* The Content-Type values the first stage accepts.
RecognizedTypes ==
    {"application/rss+xml", "text/xml", "application/atom+xml", "application/json",
     "application/feed+json"}

\* The HEAD response has a 2xx status and a Content-Type that matches none
\* of them.
Inconclusive(resp) ==
    /\ ~resp.err
    /\ Is2xx(resp.StatusCode)
    /\ \A t \in RecognizedTypes : ~Contains(ToLower(resp.ContentType), t)

\* C30: for each common path, checkFeedURL sends the HEAD request first and
\* at most one GET request after it, both for the same URL; once the HEAD
\* response is there, a GET request has been sent if and only if that
\* response has a 2xx status and a Content-Type that matches no recognized
\* feed type; after a transport error or a status outside 2xx it has
\* returned no feed, and after a recognized Content-Type it has returned a
\* feed for the URL, without a GET request in either case.
C30_GetOnlyAfterInconclusiveHead ==
    entry = "checkFeedURL" =>
      /\ requests \in { <<>>,
                        <<[method |-> "HEAD", url |-> CheckedURL]>>,
                        <<[method |-> "HEAD", url |-> CheckedURL],
                          [method |-> "GET", url |-> CheckedURL]>> }
      /\ checkPc \in {"call", "head"} => (Len(requests) <= 1 /\ headResp = NoResp)
      /\ checkPc \in {"get", "returned"} =>
           /\ Len(requests) = 2 <=> Inconclusive(headResp)
           /\ (headResp.err \/ ~Is2xx(headResp.StatusCode)) =>
                (checkPc = "returned" /\ checkRet = NoFeed)
           /\ (~headResp.err /\ Is2xx(headResp.StatusCode) /\ ~Inconclusive(headResp)) =>
                (checkPc = "returned" /\ checkRet # NoFeed /\ checkRet.URL = CheckedURL)

\* A HEAD response with status 200 and Content-Type text/html for the last
\* of the common paths, and the feed the GET request then found.
C30_Witness ==
    /\ entry = "checkFeedURL"
    /\ checkPath = "/feed.rss"
    /\ checkPc = "returned"
    /\ headResp = [err |-> FALSE, StatusCode |-> 200, ContentType |-> <<"text/html">>]
    /\ Len(requests) = 2
    /\ checkRet # NoFeed

\* The tokens of a text, written one after the other as one string.
RECURSIVE Joined(_)
Joined(s) == IF s = <<>> THEN "" ELSE Head(s) \o Joined(Tail(s))

\* Whether the string needle occurs in the string text.
Within(text, needle) ==
    \E j \in 1..(Len(text) - Len(needle) + 1) :
      SubSeq(text, j, j + Len(needle) - 1) = needle

\* The lower-cased Content-Type of the HEAD response, as one string.
HeadContentType == Joined(ToLower(headResp.ContentType))

\* C31: once a HEAD response with a 2xx status is there, checkFeedURL has
\* returned the feed (url, "", rss) if the lower-cased Content-Type contains
\* application/rss+xml or text/xml; else (url, "", atom) if it contains
\* application/atom+xml; else (url, "", json) if it contains
\* application/json or application/feed+json; the first match decides,
\* whatever else the header holds.
C31_ContentTypePriority ==
    (/\ entry = "checkFeedURL"
     /\ checkPc \in {"get", "returned"}
     /\ ~headResp.err
     /\ Is2xx(headResp.StatusCode)) =>
      IF Within(HeadContentType, "application/rss+xml") \/ Within(HeadContentType, "text/xml")
        THEN checkPc = "returned" /\ checkRet = Feed(CheckedURL, "", "rss")
      ELSE IF Within(HeadContentType, "application/atom+xml")
        THEN checkPc = "returned" /\ checkRet = Feed(CheckedURL, "", "atom")
      ELSE IF Within(HeadContentType, "application/json")
              \/ Within(HeadContentType, "application/feed+json")
        THEN checkPc = "returned" /\ checkRet = Feed(CheckedURL, "", "json")
      ELSE TRUE

\* A 200 response whose Content-Type holds both text/xml and
\* application/atom+xml, taken for an RSS feed.
C31_Witness ==
    /\ entry = "checkFeedURL"
    /\ checkPc = "returned"
    /\ headResp = [err |-> FALSE, StatusCode |-> 200,
                   ContentType |-> <<"text/xml", ", ", "application/atom+xml">>]
    /\ checkRet = Feed(CheckedURL, "", "rss")

\* validateFeedContent has returned.
Sniffed == entry = "checkFeedURL" /\ checkPc = "returned" /\ Len(requests) = 2

\* The lower-cased bytes that the Read of the GET body returned, as one
\* string.
SniffedContent == Joined(ToLower(Read(getResp.Body, SniffSize)))

\* C32: when validateFeedContent has returned, no feed is returned after a
\* GET response with a status outside 2xx; after a 2xx response whose body
\* was read, the lower-cased bytes read decide: rss if they contain <rss or
\* <rdf:rdf; else atom if they contain both <feed and xmlns; else json if
\* they contain "version" and one of "title" and "items"; else no feed.
C32_SniffClassification ==
    Sniffed =>
      IF getResp.err \/ ~Is2xx(getResp.StatusCode) THEN checkRet = NoFeed
      ELSE IF getResp.readErr THEN TRUE
      ELSE IF Within(SniffedContent, "<rss") \/ Within(SniffedContent, "<rdf:rdf")
        THEN checkRet = Feed(CheckedURL, "", "rss")
      ELSE IF Within(SniffedContent, "<feed") /\ Within(SniffedContent, "xmlns")
        THEN checkRet = Feed(CheckedURL, "", "atom")
      ELSE IF /\ Within(SniffedContent, "\"version\"")
              /\ \/ Within(SniffedContent, "\"title\"")
                 \/ Within(SniffedContent, "\"items\"")
        THEN checkRet = Feed(CheckedURL, "", "json")
      ELSE checkRet = NoFeed

\* A 200 response to the GET request whose body is <feed without xmlns,
\* and no feed returned.
C32_Witness ==
    /\ Sniffed
    /\ getResp = [err |-> FALSE, StatusCode |-> 200, Body |-> << <<"<feed">> >>,
                  readErr |-> FALSE]
    /\ checkRet = NoFeed

\* The body of the GET response as one text, whatever the pieces it came in.
RECURSIVE WholeBody(_)
WholeBody(body) == IF body = <<>> THEN <<>> ELSE Head(body) \o WholeBody(Tail(body))

\* The lower-cased first min(1024, body length) bytes of the body, as one
\* string, and the feed type its markers give.
FirstKiB == Joined(ToLower(FirstBytes(WholeBody(getResp.Body), 1024)))

FirstKiBType ==
    IF Within(FirstKiB, "<rss") \/ Within(FirstKiB, "<rdf:rdf") THEN "rss"
    ELSE IF Within(FirstKiB, "<feed") /\ Within(FirstKiB, "xmlns") THEN "atom"
    ELSE IF /\ Within(FirstKiB, "\"version\"")
            /\ Within(FirstKiB, "\"title\"") \/ Within(FirstKiB, "\"items\"")
      THEN "json"
    ELSE ""

\* validateFeedContent has returned after a 2xx response whose body it read.
BodyRead == Sniffed /\ ~getResp.err /\ Is2xx(getResp.StatusCode) /\ ~getResp.readErr

\* C33: when validateFeedContent has returned after reading the body of a
\* 2xx response, its result is the one that the first min(1024, body length)
\* bytes of the body give, in however many pieces the transport delivered
\* the body: a marker within these bytes is detected, one beyond them is not.
C33_SniffFirstKiB ==
    BodyRead =>
      checkRet = IF FirstKiBType = "" THEN NoFeed ELSE Feed(CheckedURL, "", FirstKiBType)

(***************************************************************************)
(* The feeds and the channels of ScanCommonFeedPaths.                      *)
(***************************************************************************)

\* The ten candidate paths.
TenPaths ==
    {"/feed", "/rss", "/atom.xml", "/index.xml", "/rss.xml", "/feed.xml",
     "/feeds/all.atom.xml", "/feeds/posts/default", "/api/rss", "/feed.rss"}

\* Scheme, "://" and host with port of the base URLs of the calls.
Origin ==
    CASE url = DeepURL -> "https://example.com:8080"
      [] url = GoodURL -> "https://example.com"
      [] OTHER -> "://"

\* The feeds of a call of ScanCommonFeedPaths: those the probes found, those
\* in the channel, those collected and those returned.
ProbedFeeds == {feed[p] : p \in Paths} \ {NoFeed}
ScanFeeds ==
    ProbedFeeds \cup Range(results) \cup Range(feeds) \cup Range(scanRet.feeds)

\* C34: in a call of ScanCommonFeedPaths, every feed that a probe found or
\* sent and every feed collected or returned has an empty Title and the URL
\* scheme://host[:port] of baseURL followed by one of the ten candidate
\* paths, with nothing of the path, query or fragment of baseURL; the feeds
\* returned have pairwise different URLs.
C34_ScannedFeedURLs ==
    entry = "ScanCommonFeedPaths" =>
      /\ \A f \in ScanFeeds :
           /\ f.Title = ""
           /\ \E path \in TenPaths : f.URL = Origin \o path
           /\ ~Within(f.URL, "/blog") /\ ~Within(f.URL, "?") /\ ~Within(f.URL, "#")
      /\ \A i, j \in DOMAIN scanRet.feeds :
           i # j => scanRet.feeds[i].URL # scanRet.feeds[j].URL

\* Two feeds returned for a base URL with a port, a path, a query and a
\* fragment.
C34_Witness ==
    /\ entry = "ScanCommonFeedPaths"
    /\ url = DeepURL
    /\ spc = "returned"
    /\ Len(scanRet.feeds) >= 2
    /\ \E i \in DOMAIN scanRet.feeds : scanRet.feeds[i].URL = "https://example.com:8080/rss"

(***************************************************************************)
(* Requests of a call of FindFeedsWithOptions.                             *)
(***************************************************************************)

\* How far the goroutine of a path has come.
Stage(pc) ==
    CASE pc = "unborn" -> 0
      [] pc = "acquire" -> 1
      [] pc = "head" -> 2
      [] pc = "get" -> 3
      [] pc = "send" -> 4
      [] pc = "release" -> 5
      [] pc = "done" -> 6
      [] pc = "exit" -> 7

\* A step of a call without a second request for the page or for a path: the
\* goroutine of a path never goes back to an earlier stage, so that it
\* waits for the HEAD response and for the GET response once each at most,
\* and its HEAD request is sent as it comes to wait for the HEAD response.
NoRepeatedRequest ==
    /\ pageReqs' <= 1
    /\ fpc' \in {"scan", "returned"} => pageReqs' = 1
    /\ \A p \in Paths :
         /\ headReqs'[p] <= 1
         /\ Stage(gpc'[p]) >= Stage(gpc[p])
         /\ headReqs'[p] = IF Stage(gpc'[p]) >= Stage("head") THEN 1 ELSE 0

\* C35: in a call of FindFeeds or FindFeedsWithOptions the page is requested
\* once, and for every candidate path at most one HEAD request is sent and
\* the goroutine comes to send a GET request at most once, whatever the
\* responses are: no step sends a request again.
C35_NoRetry == [][NoRepeatedRequest]_vars

\* A call that returned after the fallback: one request for the page, one
\* HEAD request per path, no feed found.
C35_Witness ==
    /\ entry = "FindFeedsWithOptions"
    /\ fpc = "returned"
    /\ pageReqs = 1
    /\ \A p \in Paths : headReqs[p] = 1 /\ gpc[p] = "exit" /\ feed[p] = NoFeed

(***************************************************************************)
(* The shape of the fragment that extractHeadSection returns.              *)
(***************************************************************************)

\* The lines of the fragment returned, in lower case.
FragmentLines == [i \in DOMAIN out.head |-> ToLower(LineText(out.head[i]))]

\* C36: when extractHeadSection returns a fragment that is not empty, its
\* first line contains <head in some case, no line but the last contains
\* </head> or <body, and the last line contains <body only together with
\* </head>.
C36_FragmentShape ==
    (HeadExtracted /\ out.head # <<>>) =>
      /\ Contains(FragmentLines[1], "<head")
      /\ \A i \in 1..(Len(FragmentLines) - 1) :
           ~Contains(FragmentLines[i], "</head>") /\ ~Contains(FragmentLines[i], "<body")
      /\ Contains(FragmentLines[Len(FragmentLines)], "<body") =>
           Contains(FragmentLines[Len(FragmentLines)], "</head>")

\* A fragment of three lines whose last line closes the head and opens the
\* body.
C36_Witness ==
    /\ HeadExtracted
    /\ Len(out.head) = 3
    /\ Contains(FragmentLines[1], "<head")
    /\ Contains(FragmentLines[3], "</head>")
    /\ Contains(FragmentLines[3], "<body")

(***************************************************************************)
(* The channels and the WaitGroup of ScanCommonFeedPaths.                  *)
(***************************************************************************)

\* C37: in every reachable state of a call of ScanCommonFeedPaths, no
\* goroutine has panicked (no send on the closed channel, no second close);
\* a goroutine about to send finds the channel open and with room, so its
\* send does not block; the channel is closed once at most, only when every
\* goroutine has called Done, and it is closed when the call returns from
\* its last line; the slots of the semaphore that are taken are those of the
\* probes between acquire and release, and none is taken when the call
\* returns.
C37_ChannelsAndSlots ==
    entry = "ScanCommonFeedPaths" =>
      /\ ~panicked
      /\ \A p \in Paths :
           gpc[p] = "send" => (closed = 0 /\ Len(results) < Cardinality(Paths))
      /\ closed <= 1
      /\ closed = 1 => (wg = 0 /\ \A p \in Paths : gpc[p] = "exit")
      /\ semaphore = Cardinality(InFlight)
      /\ ScanCompleted => (closed = 1 /\ semaphore = 0 /\ wg = 0)

\* A call with one slot that returned: one probe sent its feed, another
\* left after a failed HEAD request, the channel is closed and the slot is
\* free.
C37_Witness ==
    /\ entry = "ScanCommonFeedPaths"
    /\ opts.MaxConcurrency = 1
    /\ ScanCompleted
    /\ closed = 1
    /\ semaphore = 0
    /\ \E p, q \in Paths : feed[p] # NoFeed /\ feed[q] = NoFeed

====
